---- MODULE Spec2Model ----
(***************************************************************************)
(* Verification model of the two-stage food analysis pipeline:             *)
(*   calorie_tracker/two_stage_analyzer.py  (orchestrator, Stage 2 loop)   *)
(*   calorie_tracker/openai_service.py      (completion client)            *)
(*   foods/usda_nutrition.py                (USDA client, averager)        *)
(*   foods/usda_service.py                  (USDA service client)          *)
(*   images/views.py                        (view: parsing, USDA stage)    *)
(*   testing/food_nutrition_pipeline.py     (lookup cache)                 *)
(*                                                                         *)
(* Twelve specifications share the module:                                 *)
(*   Spec      analyze_food_image with concurrently scheduled resolutions  *)
(*   SpecLoop  one Stage 2 resolution driven through many model turns      *)
(*   SpecChat  OpenAIService.chat_completion, its retry loop               *)
(*   SpecAvg   get_averaged_nutrition_from_top_results                     *)
(*   SpecPortion  _combine_food_and_nutrition_data on one food             *)
(*   SpecView  the USDA stage of analyze_food_image_two_stage              *)
(*   SpecUsda  the requests of the two USDA clients                        *)
(*   SpecParse    the parsing of the Stage 1 answer                        *)
(*   SpecSummary  _generate_summary, its nutrient totals                   *)
(*   SpecTerms    the search terms of lookup_nutrition_for_food            *)
(*   SpecFormat   format_nutrition_info on one record                      *)
(*   SpecCache    FoodNutritionPipeline._search_usda_food and its cache    *)
(***************************************************************************)
EXTENDS Integers, Sequences, FiniteSets, TLC

\* ----------------------------------------------------------------- bounds

\* most foods Stage 1 reports in one image
MaxFoods == 2
\* most tool requests the model makes in one analysis under Spec
ToolBudget == 1
\* tool requests the model may make beyond max_iterations under SpecLoop
ExtraTurns == 0

\* most concurrent calls of chat_completion on one client
MaxCallers == 2
\* most credentials in OpenAIService.api_keys
MaxPool == 2

\* most calls made on one database client
MaxUsdaCalls == 2

\* most pieces in the content of a Stage 1 answer
MaxPieces == 6

\* most search terms Stage 1 gives a food
MaxTerms == 2

\* most entries in the foodNutrients of a record handed to format_nutrition_info
MaxEntries == 3

\* most calls of _search_usda_food on one pipeline
MaxLookups == 2

\* most foods a database search returns
MaxResults == 3
\* largest top_count the averager is called with
MaxTop == 3

\* ------------------------------------------------ binary floating point
\* Python's float is IEEE 754 binary64. A float is written [m, e]: the value
\* m * 2^e with m a natural number of at most 53 bits, kept as a sequence of
\* limbs, least significant first.

Limb == 2 ^ 14

RECURSIVE BigFromInt(_)
BigFromInt(n) == IF n = 0 THEN <<>> ELSE <<n % Limb>> \o BigFromInt(n \div Limb)

RECURSIVE BigToInt(_)
BigToInt(b) == IF b = <<>> THEN 0 ELSE Head(b) + Limb * BigToInt(Tail(b))

\* b * c + carry for a small c
RECURSIVE BigMulSmall(_, _, _)
BigMulSmall(b, c, carry) ==
    IF b = <<>> THEN BigFromInt(carry)
    ELSE LET t == Head(b) * c + carry
         IN  <<t % Limb>> \o BigMulSmall(Tail(b), c, t \div Limb)

RECURSIVE BigAdd(_, _, _)
BigAdd(a, b, carry) ==
    IF a = <<>> THEN BigMulSmall(b, 1, carry)
    ELSE IF b = <<>> THEN BigMulSmall(a, 1, carry)
    ELSE LET t == Head(a) + Head(b) + carry
         IN  <<t % Limb>> \o BigAdd(Tail(a), Tail(b), t \div Limb)

RECURSIVE BigMul(_, _)
BigMul(a, b) ==
    IF a = <<>> THEN <<>>
    ELSE BigAdd(BigMulSmall(b, Head(a), 0), <<0>> \o BigMul(Tail(a), b), 0)

BigOdd(b) == b # <<>> /\ b[1] % 2 = 1

RECURSIVE IntBitLen(_)
IntBitLen(n) == IF n = 0 THEN 0 ELSE 1 + IntBitLen(n \div 2)

RECURSIVE BigBitLen(_)
BigBitLen(b) ==
    IF b = <<>> THEN 0
    ELSE LET hi == BigBitLen(Tail(b))
         IN  IF hi > 0 THEN hi + 14 ELSE IntBitLen(Head(b))

\* b / 2^n to the nearest integer, ties to even; sticky tells whether
\* anything not zero was dropped below b already
RoundShift(b, n, sticky) ==
    LET limbs == n \div 14
        bits  == n % 14
        wide  == b \o [i \in 1..(limbs + 1) |-> 0]
        low   == SubSeq(wide, 1, limbs)
        high  == SubSeq(wide, limbs + 1, Len(wide))
        kept  == [i \in 1..Len(high) |->
                     high[i] \div (2 ^ bits)
                     + (IF i < Len(high)
                        THEN (high[i + 1] % (2 ^ bits)) * (2 ^ (14 - bits))
                        ELSE 0)]
        \* the dropped bits, most significant limb first
        top   == IF bits > 0 THEN (high[1] % (2 ^ bits)) * (2 ^ (14 - bits))
                 ELSE IF limbs > 0 THEN low[limbs] ELSE 0
        below == IF bits > 0 THEN low ELSE SubSeq(low, 1, limbs - 1)
        guard == top >= Limb \div 2
        rest  == \/ sticky
                 \/ top % (Limb \div 2) # 0
                 \/ \E i \in 1..Len(below) : below[i] # 0
    IN  IF guard /\ (rest \/ BigOdd(kept)) THEN BigAdd(kept, <<>>, 1) ELSE kept

\* the float nearest to b * 2^e, round to nearest, ties to even
FloatRound(b, e, sticky) ==
    LET n == IF BigBitLen(b) > 53 THEN BigBitLen(b) - 53 ELSE 0
    IN  [m |-> RoundShift(b, n, sticky), e |-> e + n]

\* the quotient num / den of two naturals, a limb at a time, until 55 bits
\* stand or nothing is left (den < 2^17)
RECURSIVE LongDivision(_, _, _, _)
LongDivision(b, r, den, e) ==
    IF r = 0 \/ BigBitLen(b) >= 55
    THEN FloatRound(b, e, r # 0)
    ELSE LongDivision(<<(r * Limb) \div den>> \o b, (r * Limb) % den, den, e - 14)

\* float(num) / float(den) for naturals num and den > 0 that are floats
\* themselves; also the float that a decimal literal num / 10^k is read as
FloatDiv(num, den) == LongDivision(BigFromInt(num \div den), num % den, den, 0)

\* x * y
FloatMul(x, y) == FloatRound(BigMul(x.m, y.m), x.e + y.e, FALSE)

\* the integer nearest to x * scale, decided on the float's exact value,
\* ties to even: round(x, d) and format(x, ".df") with scale = 10^d
RoundDecimal(x, scale) ==
    LET b == BigMulSmall(x.m, scale, 0)
    IN  IF x.e >= 0 THEN BigToInt(b) * 2 ^ x.e
        ELSE BigToInt(RoundShift(b, 0 - x.e, FALSE))

\* ------------------------------------------------------ program constants

\* chat_completion's default max_retries
MaxRetries == 3

\* stages.nutrition_lookup.max_iterations of the default configuration
MaxIterations == 5

\* stages.nutrition_lookup.max_concurrent_foods of the default configuration
MaxConcurrentFoods == 5

VARIABLES
    pc,                 \* position of analyze_food_image
    stage1_runs,        \* calls of identify_foods_in_image so far
    foods_identified,   \* stage1_result["foods_identified"]
    tasks,              \* one lookup_nutrition_for_food coroutine per food
    results,            \* _parallel_nutrition_lookup's results, completion order
    report,             \* what analyze_food_image returned
    events,             \* the calls of progress_callback so far, in order
    completed,          \* as_completed's queue: finished tasks not yet handed over
    progress_callback,  \* whether analyze_food_image was given a progress callback
    max_iterations,     \* configuration: stages.nutrition_lookup.max_iterations
    max_tool_requests,  \* environment: tool requests the model makes in one analysis
    max_foods,          \* environment: foods Stage 1 finds in the image at most
    max_concurrent_foods, \* configuration: stages.nutrition_lookup.max_concurrent_foods
    callers,            \* chat_completion: one record per concurrent call
    current_key_index,  \* OpenAIService.current_key_index, shared by the calls
    pool_size,          \* len(OpenAIService.api_keys)
    max_retries,        \* chat_completion's max_retries argument
    avg_pc,             \* get_averaged_nutrition_from_top_results: "called" / "returned"
    avg_call,           \* its inputs: top_count and what the database answers
    avg_result,         \* what it returned
    portion_pc,         \* one food of _combine_food_and_nutrition_data: "called" / "returned"
    portion_call,       \* its inputs: the food and its nutrition result
    portion_result,     \* the food's combined_data
    view_pc,            \* images/views.py, the USDA stage of analyze_food_image_two_stage
    view_portions,      \* stage2_result["food_portions"], the loop's position in it, and
                        \* what the database answered to each lookup made so far
    nutrition_data,     \* stage3_result["nutrition_data"]
    usda_pc,            \* one database call: "idle" / "waiting" / "sleeping" / "returned"
    usda_call,          \* the call: client, operation, entry point, page size asked, params key
    usda_requests,      \* the HTTP requests the call has issued, in order
    usda_result,        \* what the call returned
    usda_calls,         \* calls made on the client so far
    usda_key_index,     \* the client's current_key_index
    usda_pool,          \* len(api_keys) of the client
    parse_pc,           \* Stage 1 parsing of one answer: "called" / "returned"
    parse_call,         \* the parser and the answer's content
    parse_result,       \* the food list, the failure or the placeholder
    sum_pc,             \* _generate_summary on numeric results: "called" / "returned"
    sum_call,           \* its nutrition_results
    sum_result,         \* the summary it returned
    term_pc,            \* lookup_nutrition_for_food up to its user message: "called" / "sent"
    term_given,         \* the food item as Stage 1 produced it
    term_food,          \* the food item's object, as it is now
    term_sent,          \* the search terms put in the user message
    fmt_pc,             \* format_nutrition_info on one record: "called" / "returned"
    fmt_call,           \* the record (food_data)
    fmt_result,         \* the info it returned
    food_name_cache,    \* FoodNutritionPipeline.food_name_cache
    cache_db,           \* the database, unchanged throughout: the matches per search
    cache_call,         \* the last call of _search_usda_food
    cache_result,       \* what it returned
    cache_lookups       \* the calls of _search_usda_food so far

envVars == <<max_iterations, max_tool_requests, max_foods, max_concurrent_foods,
             progress_callback>>

pipeVars == <<pc, stage1_runs, foods_identified, tasks, results, report, events,
              completed, envVars>>

chatVars == <<callers, current_key_index, pool_size, max_retries>>

avgVars == <<avg_pc, avg_call, avg_result>>

portionVars == <<portion_pc, portion_call, portion_result>>

viewVars == <<view_pc, view_portions, nutrition_data>>

usdaVars == <<usda_pc, usda_call, usda_requests, usda_result, usda_calls,
              usda_key_index, usda_pool>>

\* the variables of the specifications of single operations
parseVars == <<parse_pc, parse_call, parse_result>>

sumVars == <<sum_pc, sum_call, sum_result>>

termVars == <<term_pc, term_given, term_food, term_sent>>

fmtVars == <<fmt_pc, fmt_call, fmt_result>>

cacheVars == <<food_name_cache, cache_db, cache_call, cache_result, cache_lookups>>

auxVars == <<usdaVars, parseVars, sumVars, termVars, fmtVars, cacheVars>>

vars == <<pipeVars, chatVars, avgVars, portionVars, viewVars, auxVars>>

\* ------------------------------------------------------------ data shapes

Names == {"apple", "rice"}

Food(n) == [name |-> n]

RECURSIVE SeqsUpTo(_, _)
SeqsUpTo(S, n) ==
    IF n = 0 THEN {<<>>}
    ELSE LET shorter == SeqsUpTo(S, n - 1)
         IN  shorter \cup {Append(s, x) : s \in {t \in shorter : Len(t) = n - 1}, x \in S}

FoodLists == SeqsUpTo({Food(n) : n \in Names}, MaxFoods)

\* success_rate: tenths of a percent under the format ".1f%", or the literal "0%"
NoSummary == [total_foods_identified |-> 0, successful_nutrition_lookups |-> 0,
              success_rate |-> [tenths |-> 0, format |-> "none"]]

NoReport == [success |-> FALSE, stage |-> "none", error |-> "none",
             foods_with_nutrition |-> <<>>, summary |-> NoSummary]

NoResult == [success |-> FALSE, origin |-> 0, food_item |-> Food("none"),
             payload |-> "none", per100g |-> FALSE, error |-> "none",
             last_turn |-> "none"]

NoTask == [st |-> "scheduled", agent |-> 0, turns |-> 0, tools |-> 0,
           conv |-> <<>>, result |-> NoResult]

\* what one model turn (one chat_completion call) can come back with
FinalContents == {"json_100g", "json_plain", "no_json", "bad_json"}
FunctionNames == {"search_usda_database", "get_food_nutrition", "other_function"}
ArgKinds == {"valid", "invalid_json", "bad_kwargs"}
DbOutcomes == {"hit", "none", "exception"}

ModelResponses ==
    {[type |-> "fail", name |-> "", arg |-> ""]}
    \cup {[type |-> "final", name |-> c, arg |-> ""] : c \in FinalContents}
    \cup {[type |-> "call", name |-> f, arg |-> a] : f \in FunctionNames, a \in ArgKinds}

Msg(role, name, kind) == [role |-> role, name |-> name, kind |-> kind]

\* ------------------------------------------- Stage 2: the tool-calling loop

\* function_calling_completion: the model turns one call of it makes. The loop
\* body returns on every path, so a call makes one turn when max_iter >= 1 and
\* none (the "iterations exceeded" failure) otherwise.
FunctionCallingTurns(max_iter) == IF max_iter >= 1 THEN 1 ELSE 0

\* search_usda_tool / get_food_nutrition_tool / the unknown-function branch:
\* the payload handed back, or "RAISE" when the call itself throws.
ExecuteTool(name, arg, db) ==
    IF arg = "invalid_json" THEN "RAISE"
    ELSE IF name \in {"search_usda_database", "get_food_nutrition"}
    THEN IF arg = "bad_kwargs" THEN "RAISE"
         ELSE CASE db = "hit" -> "ok"
                []  db = "none" -> "message"
                []  OTHER -> "error"
    ELSE "unknown_function"

\* _process_function_calling_result, the branch taken when the result does not
\* ask for a function execution: content is final_response, or "" when the
\* result it was handed carries none. The field error holds the note of a
\* result without structured data; last_turn records how the last model turn
\* ended ("final", "failed", or "none" when no turn was made).
FinalResult(i, food, content, last) ==
    [success |-> TRUE, origin |-> i, food_item |-> food,
     payload |-> IF content \in {"json_100g", "json_plain"}
                 THEN "nutrition_data" ELSE "note",
     per100g |-> (content = "json_100g"),
     error |-> CASE content \in {"json_100g", "json_plain"} -> "none"
                 [] content = "bad_json" -> "Response is not in JSON format"
                 [] OTHER -> "Could not extract structured JSON",
     last_turn |-> last]

\* lookup_nutrition_for_food, the early return on a failed first completion
FirstTurnFailure(i, food, err) ==
    [success |-> FALSE, origin |-> i, food_item |-> food, payload |-> "error",
     per100g |-> FALSE, error |-> err, last_turn |-> "failed"]

Returned(t, res) == [t EXCEPT !.st = "returned", !.conv = <<>>, !.result = res]

\* ------------------------------------------------ pipeline: the report

\* _combine_food_and_nutrition_data: the first result whose food_item name is
\* the food's name
RECURSIVE FirstByName(_, _)
FirstByName(rs, n) ==
    IF rs = <<>> THEN NoResult
    ELSE IF Head(rs).food_item.name = n THEN Head(rs)
    ELSE FirstByName(Tail(rs), n)

\* mutant: the result is taken by position in the completion-ordered list
MatchResultByPosition(fs, rs, i) == IF i <= Len(rs) THEN rs[i] ELSE NoResult

MatchResult(fs, rs, i) == FirstByName(rs, fs[i].name)

CombineFoodAndNutritionData(fs, rs) ==
    [i \in 1..Len(fs) |->
        [original_food |-> fs[i], nutrition_lookup |-> MatchResult(fs, rs, i)]]

\* f"{successful / total * 100:.1f}": the float quotient times 100.0, written
\* with one decimal; the tenths of a percent that are printed (total > 0)
PercentTenths(successful, total) ==
    RoundDecimal(FloatMul(FloatDiv(successful, total), FloatDiv(100, 1)), 10)

\* mutant: the rate is formatted to one decimal whatever the number of foods
SuccessRateOneDecimal(successful, total) ==
    [tenths |-> IF total > 0 THEN (successful * 1000) \div total ELSE 0,
     format |-> ".1f%"]

\* _generate_summary's success_rate: successful / total * 100 under ".1f",
\* or "0%" when no food was identified
SuccessRate(successful, total) ==
    IF total > 0
    THEN [tenths |-> PercentTenths(successful, total), format |-> ".1f%"]
    ELSE [tenths |-> 0, format |-> "0%"]

\* successful_lookups: the results that succeeded with nutrition_data holding
\* nutrition_per_100g
RECURSIVE SuccessfulLookups(_)
SuccessfulLookups(rs) ==
    IF rs = <<>> THEN 0
    ELSE (IF Head(rs).success /\ Head(rs).payload = "nutrition_data" /\ Head(rs).per100g
          THEN 1 ELSE 0) + SuccessfulLookups(Tail(rs))

\* _generate_summary (the nutrition totals left out)
GenerateSummary(fs, rs) ==
    [total_foods_identified |-> Len(fs),
     successful_nutrition_lookups |-> SuccessfulLookups(rs),
     success_rate |-> SuccessRate(SuccessfulLookups(rs), Len(fs))]

FinalReport(fs, rs) ==
    [success |-> TRUE, stage |-> "complete", error |-> "none",
     foods_with_nutrition |-> CombineFoodAndNutritionData(fs, rs),
     summary |-> GenerateSummary(fs, rs)]

\* mutant: a Stage 1 failure reported under the final stage's tag
Stage1FailureAsComplete(err) ==
    [success |-> FALSE, stage |-> "complete", error |-> err,
     foods_with_nutrition |-> <<>>, summary |-> NoSummary]

Stage1FailedReport(err) ==
    [success |-> FALSE, stage |-> "food_identification", error |-> err,
     foods_with_nutrition |-> <<>>, summary |-> NoSummary]

\* one call progress_callback(step, data): of data, completed and total
ProgressEvent(step, count, total) ==
    [step |-> step, completed |-> count, total |-> total]

\* the event after a result was appended to results: completed counts them
Stage2Progress(rs, n) == ProgressEvent("stage2_progress", Len(rs), n)

AnalysisComplete == ProgressEvent("analysis_complete", 0, 0)

\* "if progress_callback: progress_callback(...)" for each event of evs
Emit(evs) == IF progress_callback THEN events \o evs ELSE events

\* --------------------------------------------------------------- actions

\* mutant: a lookup task is created before Stage 1 has been awaited
AnalyzeStartEager ==
    /\ pc = "init"
    /\ pc' = "stage1"
    /\ stage1_runs' = stage1_runs + 1
    /\ foods_identified' = <<Food("apple")>>
    /\ tasks' = <<NoTask>>
    /\ events' = Emit(<<ProgressEvent("stage1_start", 0, 0)>>)
    /\ UNCHANGED <<results, report, completed, envVars, chatVars, avgVars, portionVars, viewVars, auxVars>>

\* analyze_food_image up to its first await: Stage 1 is started
AnalyzeStart ==
    /\ pc = "init"
    /\ pc' = "stage1"
    /\ stage1_runs' = stage1_runs + 1
    /\ events' = Emit(<<ProgressEvent("stage1_start", 0, 0)>>)
    /\ UNCHANGED <<foods_identified, tasks, results, report, completed, envVars, chatVars, avgVars, portionVars, viewVars, auxVars>>

\* identify_foods_in_image returned a failure: image unreadable, completion
\* retries exhausted, no JSON object in the answer, or JSON that does not parse
Stage1Fails ==
    /\ pc = "stage1"
    /\ \E err \in {"encode_image", "max_retries", "no_json", "invalid_json"} :
           report' = Stage1FailedReport(err)
    /\ pc' = "done"
    /\ UNCHANGED <<stage1_runs, foods_identified, tasks, results, events, completed, envVars, chatVars, avgVars, portionVars, viewVars, auxVars>>

\* "nutrition_agents[i % len(nutrition_agents)]" for the i-th food, counted
\* from 1 here and from 0 there: the agent's id among min(m, n) agents
AgentFor(i, m, n) == (i - 1) % (IF m <= n THEN m ELSE n)

\* identify_foods_in_image returned a food list; _parallel_nutrition_lookup
\* creates one task per food and hands them all to as_completed. With no
\* food there is nothing to await and the report is built at once.
Stage1Succeeds ==
    /\ pc = "stage1"
    /\ \E fs \in FoodLists :
        /\ Len(fs) <= max_foods
        /\ foods_identified' = fs
        /\ tasks' = [i \in 1..Len(fs) |->
                        [NoTask EXCEPT !.agent = AgentFor(i, max_concurrent_foods, Len(fs))]]
        /\ IF fs = <<>>
           THEN /\ pc' = "done"
                /\ report' = FinalReport(fs, <<>>)
                /\ events' = Emit(<<ProgressEvent("stage1_complete", 0, 0),
                                    ProgressEvent("stage2_start", 0, 0),
                                    AnalysisComplete>>)
           ELSE /\ pc' = "stage2"
                /\ events' = Emit(<<ProgressEvent("stage1_complete", 0, 0),
                                    ProgressEvent("stage2_start", 0, 0)>>)
                /\ UNCHANGED report
    /\ UNCHANGED <<stage1_runs, results, completed, envVars, chatVars, avgVars, portionVars, viewVars, auxVars>>

\* a step of task i ends with the task as nt: a task that returned or raised
\* is done, and as_completed's done-callback puts it on the queue of finished
\* tasks, in completion order
TaskSettles(i, nt) ==
    /\ tasks' = [tasks EXCEPT ![i] = nt]
    /\ completed' = IF nt.st \in {"returned", "raised"}
                    THEN Append(completed, i) ELSE completed

\* _parallel_nutrition_lookup's loop resumes with the next finished task of
\* as_completed: its result is appended and reported, and the last one
\* completes the report; an exception of the task is re-raised by "await task"
\* and leaves analyze_food_image. The loop is resumed by a callback queued
\* behind the first steps of all the tasks, so every task has started by then.
TaskFinished ==
    /\ pc = "stage2"
    /\ completed # <<>>
    /\ \A j \in 1..Len(tasks) : tasks[j].st # "scheduled"
    /\ completed' = Tail(completed)
    /\ LET nt == tasks[Head(completed)]
       IN  IF nt.st = "raised"
           THEN /\ pc' = "raised"
                /\ UNCHANGED <<results, report, events>>
           ELSE /\ results' = Append(results, nt.result)
                /\ IF Len(results') = Len(foods_identified)
                   THEN /\ pc' = "done"
                        /\ report' = FinalReport(foods_identified, results')
                        /\ events' = Emit(<<Stage2Progress(results',
                                                           Len(foods_identified)),
                                            AnalysisComplete>>)
                   ELSE /\ events' = Emit(<<Stage2Progress(results',
                                                           Len(foods_identified))>>)
                        /\ UNCHANGED <<pc, report>>
    /\ UNCHANGED <<tasks, stage1_runs, foods_identified, envVars, chatVars, avgVars,
                   portionVars, viewVars, auxVars>>

\* resolutions whose completion request is out
InFlight(ts) == Cardinality({j \in 1..Len(ts) : ts[j].st = "awaiting"})

\* mutant: a resolution starts only while fewer than min(max_concurrent_foods,
\* number of foods) are in flight
TaskStartThrottled(i) ==
    /\ pc = "stage2"
    /\ i \in 1..Len(tasks)
    /\ tasks[i].st = "scheduled"
    /\ InFlight(tasks) < (IF max_concurrent_foods <= Len(tasks)
                          THEN max_concurrent_foods ELSE Len(tasks))
    /\ TaskSettles(i,
          IF FunctionCallingTurns(max_iterations) = 1
          THEN [tasks[i] EXCEPT !.st = "awaiting",
                   !.conv = <<Msg("system", "", ""), Msg("user", "", "")>>]
          ELSE Returned(tasks[i],
                   FirstTurnFailure(i, foods_identified[i],
                       "Maximum function calling iterations exceeded")))
    /\ UNCHANGED <<pc, results, report, events, stage1_runs, foods_identified, envVars,
                   chatVars, avgVars, portionVars, viewVars, auxVars>>

\* lookup_nutrition_for_food up to its first await: the conversation is built
\* and the first completion is requested
TaskStart(i) ==
    /\ pc = "stage2"
    /\ i \in 1..Len(tasks)
    /\ tasks[i].st = "scheduled"
    /\ TaskSettles(i,
          IF FunctionCallingTurns(max_iterations) = 1
          THEN [tasks[i] EXCEPT !.st = "awaiting",
                   !.conv = <<Msg("system", "", ""), Msg("user", "", "")>>]
          ELSE Returned(tasks[i],
                   FirstTurnFailure(i, foods_identified[i],
                       "Maximum function calling iterations exceeded")))
    /\ UNCHANGED <<pc, results, report, events, stage1_runs, foods_identified, envVars,
                   chatVars, avgVars, portionVars, viewVars, auxVars>>

\* mutant: whatever was requested, the database search is what runs
ToolAlwaysSearch(resp) == "search_usda_database"

\* "function_name = function_call["name"]": the tool run for a request
ToolToExecute(resp) == resp.name

\* The resolution from one model turn's answer to its next await or its end:
\* function_calling_completion's handling of the answer, lookup_nutrition_for_food's
\* check of the first result, then _process_function_calling_result (the final
\* answer, or the tool execution and continue_function_conversation).
AfterTurn(t, i, food, resp, db, max_iter) ==
    LET t1 == [t EXCEPT !.turns = @ + 1]
    IN  CASE resp.type = "fail" ->
               \* the first completion's failure is returned as a failure; a
               \* later one reaches _process_function_calling_result, which
               \* reads it as a final answer with no content
               Returned(t1, IF t.turns = 0
                            THEN FirstTurnFailure(i, food, "Maximum retries exceeded")
                            ELSE FinalResult(i, food, "", "failed"))
          [] resp.type = "final" ->
               Returned(t1, FinalResult(i, food, resp.name, "final"))
          [] OTHER ->
               LET payload == ExecuteTool(ToolToExecute(resp), resp.arg, db)
                   conv2 == t.conv \o <<Msg("assistant", resp.name, "function_call"),
                                        Msg("function", ToolToExecute(resp), payload)>>
                   t2 == [t1 EXCEPT !.tools = @ + 1, !.conv = conv2]
               IN  IF payload = "RAISE"
                   THEN [t1 EXCEPT !.st = "raised", !.conv = <<>>]
                   ELSE IF FunctionCallingTurns(max_iter - 1) = 1
                   THEN t2
                   ELSE Returned(t2, FinalResult(i, food, "", "none"))

\* tool requests made so far by all resolutions of the analysis
RECURSIVE ToolsRequested(_)
ToolsRequested(ts) ==
    IF ts = <<>> THEN 0 ELSE Head(ts).tools + ToolsRequested(Tail(ts))

\* whether the answer makes a tool issue a database call
ReachesDatabase(resp) ==
    /\ resp.type = "call"
    /\ resp.name \in {"search_usda_database", "get_food_nutrition"}
    /\ resp.arg = "valid"

\* One model turn of task i comes back. Nothing cancels the other tasks when
\* analyze_food_image has raised: they run on while the event loop does.
ModelTurn(i) ==
    /\ pc \in {"stage2", "raised"}
    /\ i \in 1..Len(tasks)
    /\ tasks[i].st = "awaiting"
    /\ \E resp \in ModelResponses, db \in DbOutcomes :
        /\ resp.type = "call" => ToolsRequested(tasks) < max_tool_requests
        /\ ~ReachesDatabase(resp) => db = "hit"
        /\ TaskSettles(i, AfterTurn(tasks[i], i, foods_identified[i], resp, db,
                                    max_iterations))
    /\ UNCHANGED <<pc, results, report, events, stage1_runs, foods_identified, envVars,
                   chatVars, avgVars, portionVars, viewVars, auxVars>>

\* ------------------------------------- OpenAIService.chat_completion

\* what one HTTP attempt can end in: a 2xx answer, 429, 401, another non-2xx
\* status (raise_for_status), a timeout, a network error, any other exception
HttpOutcomes == {"ok", "429", "401", "http_error", "timeout", "client_error",
                 "unexpected"}

NoChatResult == [success |-> FALSE, error |-> "none", attempts |-> 0]

\* one call of chat_completion: attempt is the loop index, key the credential
\* the request in flight was sent with, last the outcome of the previous
\* attempt, rotated and slept what the call did between that attempt and the
\* present one
IdleCaller == [st |-> "idle", attempt |-> 0, key |-> 0, requests |-> 0,
               last |-> "none", rotated |-> 0, slept |-> 0,
               result |-> NoChatResult]

\* _rotate_api_key
RotateApiKey(idx, n) == (idx + 1) % n

\* mutant: the same pause before every retry
BackoffConstant(attempt) == 1

\* "await asyncio.sleep(2**attempt)"
Backoff(attempt) == 2 ^ attempt

\* mutant: an attempt answered 429 or 401 is not counted against max_retries
NextAttemptFreeRotation(attempt, outcome) ==
    IF outcome \in {"429", "401"} THEN attempt ELSE attempt + 1

\* "for attempt in range(max_retries)": every attempt, however it ended,
\* moves the loop to the next index
NextAttempt(attempt, outcome) == attempt + 1

RetriesExceeded(n) ==
    [success |-> FALSE, error |-> "Maximum retries exceeded", attempts |-> n]

ChatSuccess == [success |-> TRUE, error |-> "none", attempts |-> 0]

\* the top of the loop body for attempt a: _get_headers reads the cursor and the
\* request is posted; past the last index the loop ends and the failure is returned
BeginAttempt(c, a, cursor) ==
    IF a < max_retries
    THEN [c EXCEPT !.st = "inflight", !.attempt = a, !.key = cursor,
                   !.requests = @ + 1]
    ELSE [c EXCEPT !.st = "returned", !.result = RetriesExceeded(max_retries)]

\* chat_completion is called: the first attempt is sent
ChatCall(k) ==
    /\ k \in DOMAIN callers
    /\ callers[k].st = "idle"
    /\ callers' = [callers EXCEPT ![k] = BeginAttempt(@, 0, current_key_index)]
    /\ UNCHANGED <<current_key_index, pool_size, max_retries, pipeVars, avgVars, portionVars, viewVars, auxVars>>

\* the answer to the request in flight arrives
ChatResponse(k) ==
    /\ k \in DOMAIN callers
    /\ callers[k].st = "inflight"
    /\ \E outcome \in HttpOutcomes :
        LET c == [callers[k] EXCEPT !.last = outcome, !.slept = 0,
                                    !.rotated = 0]
            a == c.attempt
        IN  CASE outcome = "ok" ->
                   /\ callers' = [callers EXCEPT ![k] =
                          [c EXCEPT !.st = "returned", !.result = ChatSuccess]]
                   /\ UNCHANGED current_key_index
              [] outcome \in {"429", "401"} ->
                   \* rotate and continue: the exit of "async with
                   \* session.post" is awaited on the way to the next attempt,
                   \* and either completes at once or suspends the call
                   /\ current_key_index' = RotateApiKey(current_key_index, pool_size)
                   /\ \/ callers' = [callers EXCEPT ![k] =
                             BeginAttempt([c EXCEPT !.rotated = 1],
                                          NextAttempt(a, outcome), current_key_index')]
                      \/ callers' = [callers EXCEPT ![k] =
                             [c EXCEPT !.rotated = 1, !.st = "leaving"]]
              [] OTHER ->
                   \* the except clauses: back off unless this was the last attempt
                   /\ UNCHANGED current_key_index
                   /\ IF a < max_retries - 1
                      THEN callers' = [callers EXCEPT ![k] =
                               [c EXCEPT !.st = "sleeping", !.slept = Backoff(a)]]
                      ELSE callers' = [callers EXCEPT ![k] =
                               BeginAttempt(c, NextAttempt(a, outcome), current_key_index)]
    /\ UNCHANGED <<pool_size, max_retries, pipeVars, avgVars, portionVars, viewVars, auxVars>>

\* asyncio.sleep(2 ** attempt) is over: the next attempt is sent
ChatWake(k) ==
    /\ k \in DOMAIN callers
    /\ callers[k].st = "sleeping"
    /\ callers' = [callers EXCEPT ![k] =
           BeginAttempt(@, NextAttempt(@.attempt, @.last), current_key_index)]
    /\ UNCHANGED <<current_key_index, pool_size, max_retries, pipeVars, avgVars, portionVars, viewVars, auxVars>>

\* the exit of "async with session.post" after a 429 or 401 is over: the loop
\* goes on to its next attempt, whose headers are read from the cursor as it
\* is now
ChatContinue(k) ==
    /\ k \in DOMAIN callers
    /\ callers[k].st = "leaving"
    /\ callers' = [callers EXCEPT ![k] =
           BeginAttempt(@, NextAttempt(@.attempt, @.last), current_key_index)]
    /\ UNCHANGED <<current_key_index, pool_size, max_retries, pipeVars, avgVars, portionVars, viewVars, auxVars>>

NextChat ==
    \/ \E k \in 1..MaxCallers : ChatCall(k)
    \/ \E k \in 1..MaxCallers : ChatResponse(k)
    \/ \E k \in 1..MaxCallers : ChatWake(k)
    \/ \E k \in 1..MaxCallers : ChatContinue(k)

\* ------------------------------------------ foods/usda_nutrition.py
\* Amounts are decimal fixed point, in hundredths of the unit (52.0 kcal is 5200).

Min(a, b) == IF a <= b THEN a ELSE b

\* num / den rounded to the nearest integer, an exact half going to the even one
RoundNearest(num, den) ==
    LET q == num \div den
        r == num % den
    IN  IF 2 * r > den THEN q + 1
        ELSE IF 2 * r < den THEN q
        ELSE IF q % 2 = 0 THEN q ELSE q + 1

\* round(sum / count, 1) of binary floating point: the nearest tenth; where the
\* decimal quotient lies exactly between two tenths the float quotient lies on
\* either side of it, so either neighbour can come out
RoundToTenth(sum, count, up) ==
    LET den == 10 * count
        q == sum \div den
        r == sum % den
    IN  IF 2 * r > den THEN 10 * (q + 1)
        ELSE IF 2 * r < den THEN 10 * q
        ELSE IF up THEN 10 * (q + 1) ELSE 10 * q

IsTie(sum, count) == count > 0 /\ 2 * (sum % (10 * count)) = 10 * count

\* key_nutrients
NutrientKey(id) ==
    CASE id = 1008 -> "calories"
      [] id = 2047 -> "calories"
      [] id = 1003 -> "protein"
      [] id = 1004 -> "fat"
      [] id = 1005 -> "carbs"
      [] id = 1079 -> "fiber"
      [] id = 2000 -> "sugar"
      [] id = 1087 -> "calcium"
      [] id = 1089 -> "iron"
      [] id = 1092 -> "potassium"
      [] id = 1093 -> "sodium"
      [] id = 1104 -> "vitamin_a"
      [] id = 1162 -> "vitamin_c"
      [] OTHER -> "none"

\* mutant: a kJ amount is stored as it stands
StoredUnconverted(id, amount) == amount

\* the amount stored for one foodNutrients entry: kJ (2047) is converted to
\* kcal, round(amount / 4.184, 2)
StoredAmount(id, amount) ==
    IF id = 2047 /\ amount > 0 THEN RoundNearest(amount * 1000, 4184) ELSE amount

\* format_nutrition_info's loop: an entry is stored when its key is not stored
\* yet or is stored as 0
RECURSIVE ExtractNutrients(_, _)
ExtractNutrients(entries, acc) ==
    IF entries = <<>> THEN acc
    ELSE LET e == Head(entries)
             key == NutrientKey(e.id)
             acc2 == IF key # "none" /\ (key \notin DOMAIN acc \/ acc[key] = 0)
                     THEN [k \in DOMAIN acc \cup {key} |->
                              IF k = key THEN StoredAmount(e.id, e.amount) ELSE acc[k]]
                     ELSE acc
         IN  ExtractNutrients(Tail(entries), acc2)

\* format_nutrition_info; found = FALSE stands for None
FormatNutritionInfo(food_data) ==
    IF ~food_data.found
    THEN [found |-> FALSE, food_description |-> "N/A", fdc_id |-> 0,
          nutrients |-> [k \in {} |-> 0]]
    ELSE [found |-> TRUE, food_description |-> food_data.description,
          fdc_id |-> food_data.fdcId,
          nutrients |-> ExtractNutrients(food_data.foodNutrients, [k \in {} |-> 0])]

\* nutrients.get(key, 0)
Get(nutrients, key) == IF key \in DOMAIN nutrients THEN nutrients[key] ELSE 0

\* mutant: a record counts only when it has calories
HasCalories(nutrients) == Get(nutrients, "calories") > 0

\* has_meaningful_data
HasMeaningfulData(nutrients) ==
    \/ Get(nutrients, "calories") > 0
    \/ Get(nutrients, "protein") > 0
    \/ Get(nutrients, "fat") > 0
    \/ Get(nutrients, "carbs") > 0

\* the database: what get_food_details answers for each id
Entry(id, amount) == [id |-> id, amount |-> amount]

Detail(id, description, entries) ==
    [found |-> TRUE, fdcId |-> id, description |-> description,
     foodNutrients |-> entries]

NoDetail == [found |-> FALSE, fdcId |-> 0, description |-> "", foodNutrients |-> <<>>]

GetFoodDetails(id) ==
    CASE id = 1 -> Detail(1, "Apples, raw, with skin",
                          <<Entry(1008, 5200), Entry(1079, 240)>>)
      [] id = 2 -> Detail(2, "Apples, raw, gala",
                          <<Entry(1008, 4800), Entry(1079, 260)>>)
      [] id = 3 -> Detail(3, "Apples, raw, fuji", <<Entry(1008, 5400)>>)
      [] id = 4 -> Detail(4, "Apple, placeholder",
                          <<Entry(1008, 0), Entry(2047, 2), Entry(1003, 0),
                            Entry(1079, 300)>>)
      [] id = 5 -> Detail(5, "Apple juice, trace nutrients",
                          <<Entry(1004, 4), Entry(2000, 8), Entry(1093, 200)>>)
      [] id = 7 -> Detail(7, "Apples, dried",
                          <<Entry(2047, 21800), Entry(1008, 5200), Entry(1003, 0),
                            Entry(1003, 90)>>)
      [] id = 8 -> Detail(8, "Apple protein isolate", <<Entry(1003, 110)>>)
      [] OTHER -> NoDetail

\* ids a search result can carry; 0 is a food without fdcId, 6 one whose
\* detail cannot be fetched
FdcIds == 0..8

SearchFoods == SeqsUpTo({[fdcId |-> id] : id \in FdcIds}, MaxResults)

\* the keys of avg_nutrients, by their USDA names (nutrient_mapping)
AvgKeys == {"calories", "protein", "fat", "carbs", "fiber", "sugar", "sodium"}

\* the loop over foods[:top_count]: the records kept in valid_nutrition_data
RECURSIVE ValidNutritionData(_)
ValidNutritionData(foods) ==
    IF foods = <<>> THEN <<>>
    ELSE LET fdc_id == Head(foods).fdcId
             info == FormatNutritionInfo(GetFoodDetails(fdc_id))
             rest == ValidNutritionData(Tail(foods))
         IN  IF fdc_id # 0 /\ info.found /\ DOMAIN info.nutrients # {}
                /\ HasMeaningfulData(info.nutrients)
             THEN <<[description |-> info.food_description, fdc_id |-> info.fdc_id,
                     nutrients |-> info.nutrients]>> \o rest
             ELSE rest

\* mutant: every stored value is added and counted, zero or not
ContributesAlways(value) == TRUE

\* "if value and value > 0"
Contributes(value) == value > 0

RECURSIVE NutrientSum(_, _)
NutrientSum(data, key) ==
    IF data = <<>> THEN 0
    ELSE (IF Contributes(Get(Head(data).nutrients, key))
          THEN Get(Head(data).nutrients, key) ELSE 0) + NutrientSum(Tail(data), key)

RECURSIVE NutrientCount(_, _)
NutrientCount(data, key) ==
    IF data = <<>> THEN 0
    ELSE (IF Contributes(Get(Head(data).nutrients, key)) THEN 1 ELSE 0)
         + NutrientCount(Tail(data), key)

\* mutant: every nutrient is divided by the number of valid records
DivisorValidCount(count, valid_count) == valid_count

\* the divisor of one nutrient's average: nutrient_counts[key]
Divisor(count, valid_count) == count

\* avg_nutrients[key] after the averaging loop
AveragedNutrient(data, key, up) ==
    IF NutrientCount(data, key) > 0
    THEN RoundToTenth(NutrientSum(data, key),
                      Divisor(NutrientCount(data, key), Len(data)), up)
    ELSE 0

Take(seq, n) == SubSeq(seq, 1, Min(n, Len(seq)))

AvgNone == [kind |-> "none", valid_results_count |-> 0, total_results_found |-> 0,
            averaged_nutrition |-> [k \in {} |-> 0], source_foods |-> <<>>]

AvgError == [AvgNone EXCEPT !.kind = "error"]

\* get_averaged_nutrition_from_top_results: the values it can return. search
\* is what search_foods did ("ok" with foods, "none", or "raises").
GetAveragedNutrition(search, top_count) ==
    IF search.outcome = "raises" THEN {AvgError}
    ELSE IF search.outcome = "none" \/ search.foods = <<>> THEN {AvgNone}
    ELSE LET data == ValidNutritionData(Take(search.foods, top_count))
             ties == {k \in AvgKeys :
                         IsTie(NutrientSum(data, k),
                               Divisor(NutrientCount(data, k), Len(data)))}
         IN  IF data = <<>> THEN {AvgNone}
             ELSE {[kind |-> "success",
                    valid_results_count |-> Len(data),
                    total_results_found |-> Len(search.foods),
                    averaged_nutrition |->
                        [k \in AvgKeys |-> AveragedNutrient(data, k, k \in ups)],
                    source_foods |->
                        [j \in 1..Min(5, Len(data)) |->
                            [description |-> data[j].description,
                             fdc_id |-> data[j].fdc_id]]] : ups \in SUBSET ties}

\* the averager is called and returns
Average ==
    /\ avg_pc = "called"
    /\ avg_pc' = "returned"
    /\ avg_result' \in GetAveragedNutrition(avg_call.search, avg_call.top_count)
    /\ UNCHANGED <<avg_call, pipeVars, chatVars, portionVars, viewVars, auxVars>>

NextAvg == Average

\* ------------------- _combine_food_and_nutrition_data: one food's portion
\* Per-100g values and portions are in hundredths, weights in grams.

PortionKeys == {"calories", "protein_g", "fat_g", "carbs_g", "fiber_g"}

\* "food.get("estimated_weight_grams", 0)"
EstimatedWeight(food) == IF food.has_weight THEN food.weight ELSE 0

NoCombined == [present |-> FALSE, estimated_weight_grams |-> 0,
               nutrition_per_portion |-> [k \in PortionKeys |-> 0]]

\* combined_data of one food: None unless its lookup succeeded with
\* nutrition_data holding nutrition_per_100g; otherwise each value is
\* round(per-100g value * weight / 100.0, 1), a key the data lacks counting 0.
\* One result per way the exact ties can round.
CombinedData(call) ==
    IF ~(call.success /\ call.has_per100g)
    THEN {NoCombined}
    ELSE LET w == EstimatedWeight(call.food)
             ties == {k \in PortionKeys : IsTie(call.per100g[k] * w, 100)}
         IN  {[present |-> TRUE, estimated_weight_grams |-> w,
               nutrition_per_portion |->
                   [k \in PortionKeys |->
                       RoundToTenth(call.per100g[k] * w, 100, k \in ups)]] :
              ups \in SUBSET ties}

Combine ==
    /\ portion_pc = "called"
    /\ portion_pc' = "returned"
    /\ portion_result' \in CombinedData(portion_call)
    /\ UNCHANGED <<portion_call, pipeVars, chatVars, avgVars, viewVars, auxVars>>

NextPortion == Combine

\* ------------- images/views.py: the USDA stage of analyze_food_image_two_stage

\* get_default_nutrition_data, in hundredths
DefaultNutritionData ==
    [k \in AvgKeys |->
        CASE k = "calories" -> 10000
          [] k = "protein" -> 1000
          [] k = "fat" -> 500
          [] k = "carbs" -> 2000
          [] k = "fiber" -> 200
          [] k = "sugar" -> 500
          [] OTHER -> 10000]

NoFdcId == [kind |-> "none", n |-> 0]

\* create_default_nutrition_dict
CreateDefaultNutritionDict(food_name, description) ==
    [food_name |-> food_name, usda_description |-> description,
     fdc_id |-> NoFdcId, nutrients |-> DefaultNutritionData]

\* the single-result fallback's loop over foodNutrients: the defaults, each
\* overwritten by round(amount, 1) of every positive entry whose nutrient name
\* matches (the database's names for the ids of key_nutrients; an energy
\* entry is taken as it is, whatever its unit)
\* round(amount, 1) of the float the amount is read as, in hundredths
RoundedToTenth(amount) == 10 * RoundDecimal(FloatDiv(amount, 100), 10)

RECURSIVE MapNutrientsByName(_, _)
MapNutrientsByName(entries, acc) ==
    IF entries = <<>> THEN acc
    ELSE LET e == Head(entries)
             key == NutrientKey(e.id)
         IN  MapNutrientsByName(Tail(entries),
                 IF key \in AvgKeys /\ e.amount > 0
                 THEN [acc EXCEPT ![key] = RoundedToTenth(e.amount)]
                 ELSE acc)

\* first_food.get("description", "")
FirstFoodDescription(first_food) ==
    IF "description" \in DOMAIN first_food THEN first_food.description ELSE ""

\* the nutrition entry recorded for one portion, given what the database
\* answers to the averager's search and to the fallback's own search: the
\* averaged values; failing that the values of the first fallback result's
\* record over the defaults, under the description the search result carries;
\* failing that the defaults.
NutritionEntries(food_name, search, fallback) ==
    {IF averaged.kind = "success"
     THEN [food_name |-> food_name, usda_description |-> "Averaged from USDA sources",
           fdc_id |-> [kind |-> "averaged", n |-> averaged.valid_results_count],
           nutrients |-> averaged.averaged_nutrition]
     ELSE IF fallback.outcome = "ok" /\ fallback.foods # <<>>
     THEN LET first_food == fallback.foods[1]
              detail == GetFoodDetails(first_food.fdcId)
          IN  IF detail.found
              THEN [food_name |-> food_name,
                    usda_description |-> FirstFoodDescription(first_food),
                    fdc_id |-> [kind |-> "id", n |-> first_food.fdcId],
                    nutrients |-> MapNutrientsByName(detail.foodNutrients,
                                                     DefaultNutritionData)]
              ELSE CreateDefaultNutritionDict(food_name, "USDA lookup failed")
     ELSE CreateDefaultNutritionDict(food_name, "No USDA records found") :
     averaged \in GetAveragedNutrition(search, 10)}

\* what the averager's search can do with a portion's search term: fail (no
\* answer), raise inside the averager, or answer a result list; one result
\* reaches every branch
ViewSearches ==
    {[outcome |-> "none", foods |-> <<>>], [outcome |-> "raises", foods |-> <<>>]}
    \cup {[outcome |-> "ok", foods |-> fs] : fs \in {f \in SearchFoods : Len(f) <= 1}}

\* the descriptions a search result can carry: that of record 1, and one no
\* record has
SearchDescriptions == {"Apples, raw, with skin", "Apples"}

\* what the fallback's own search_foods can answer: nothing, or a result list
\* whose first food has an fdcId and, if the database gave one, a description
ViewFallbacks ==
    {[outcome |-> "none", foods |-> <<>>], [outcome |-> "ok", foods |-> <<>>]}
    \cup {[outcome |-> "ok", foods |-> <<[fdcId |-> id]>>] : id \in FdcIds}
    \cup {[outcome |-> "ok", foods |-> <<[fdcId |-> id, description |-> d]>>] :
             id \in FdcIds, d \in SearchDescriptions}

\* the averager succeeded: the fallback search is not made
NotSearched == [outcome |-> "not searched", foods |-> <<>>]

\* "if averaged_result and averaged_result.get("success")"
AveragingSucceeds(search) ==
    \E averaged \in GetAveragedNutrition(search, 10) : averaged.kind = "success"

\* portion.get("name", default)
PortionName(portion, default) ==
    IF "name" \in DOMAIN portion THEN portion.name ELSE default

\* one iteration of "for portion in stage2_result["food_portions"]"; a portion
\* without a name, or with an empty one, is skipped. The fallback search is
\* made only when the averaging did not succeed.
ViewLookup ==
    /\ view_pc = "stage3"
    /\ view_portions.next <= Len(view_portions.portions)
    /\ LET food_name == PortionName(view_portions.portions[view_portions.next], "")
       IN  IF food_name = ""
           THEN /\ UNCHANGED nutrition_data
                /\ view_portions' = [view_portions EXCEPT !.next = @ + 1]
           ELSE \E search \in ViewSearches, fallback \in ViewFallbacks \cup {NotSearched} :
                  /\ (fallback = NotSearched) <=> AveragingSucceeds(search)
                  /\ \E entry \in NutritionEntries(food_name, search, fallback) :
                        nutrition_data' = Append(nutrition_data, entry)
                  /\ view_portions' =
                        [view_portions EXCEPT
                            !.next = @ + 1,
                            !.answers = Append(@, [search |-> search,
                                                   fallback |-> fallback])]
    /\ UNCHANGED <<view_pc, pipeVars, chatVars, avgVars, portionVars, auxVars>>

\* the loop is over: the stage's result is returned
ViewReturn ==
    /\ view_pc = "stage3"
    /\ view_portions.next > Len(view_portions.portions)
    /\ view_pc' = "done"
    /\ UNCHANGED <<view_portions, nutrition_data, pipeVars, chatVars, avgVars, portionVars, auxVars>>

\* "except Exception": USDANutritionAPI() raises before the loop, or a request
\* of the fallback raises something other than a RequestException during the
\* lookup of a named portion. Whatever was recorded so far, the defaults are
\* appended for every portion, one without a name as "Unknown", and the
\* stage's result is returned
ViewUnavailable ==
    /\ view_pc = "stage3"
    /\ \/ view_portions.next = 1
       \/ /\ view_portions.next <= Len(view_portions.portions)
          /\ PortionName(view_portions.portions[view_portions.next], "") # ""
    /\ view_pc' = "done"
    /\ nutrition_data' = nutrition_data \o
          [j \in 1..Len(view_portions.portions) |->
              CreateDefaultNutritionDict(PortionName(view_portions.portions[j], "Unknown"),
                                         "USDA service unavailable")]
    /\ UNCHANGED <<view_portions, pipeVars, chatVars, avgVars, portionVars, auxVars>>

NextView == ViewLookup \/ ViewReturn \/ ViewUnavailable

\* ------------------------------- foods/usda_nutrition.py, foods/usda_service.py
\* One call of search_foods or get_food_details on a database client: "api" is
\* USDANutritionAPI, "service" is USDANutritionService.

\* usda_search.default_page_size and max_page_size of the configuration
DefaultPageSize == 25
MaxPageSize == 100
\* "pageSize": min(page_size, 200) of USDANutritionService.search_foods
ServiceMaxPageSize == 200
\* page_size=min(top_count, 25) of the averager, and its default top_count
AveragerMaxPageSize == 25
DefaultTopCount == 10

\* a page size (or top_count) argument: given, or left to the default
NotGiven == [given |-> FALSE, n |-> 0]
Given(n) == [given |-> TRUE, n |-> n]

\* search_usda_tool: the page size it hands to search_foods
ToolPageSize(asked) ==
    LET page_size == IF asked.given THEN asked.n ELSE DefaultPageSize
    IN  IF page_size > MaxPageSize THEN MaxPageSize ELSE page_size

\* "pageSize" of the request's params, by client and entry point: the tool
\* and the averager call USDANutritionAPI.search_foods, which sends the
\* page_size it is given; USDANutritionService.search_foods caps it
SentPageSize(client, via, asked) ==
    CASE via = "tool" -> ToolPageSize(asked)
      [] via = "averager" ->
            Min(IF asked.given THEN asked.n ELSE DefaultTopCount, AveragerMaxPageSize)
      [] client = "service" ->
            Min(IF asked.given THEN asked.n ELSE DefaultPageSize, ServiceMaxPageSize)
      [] OTHER -> IF asked.given THEN asked.n ELSE DefaultPageSize

\* mutant: the cursor stays where it is
UsdaRotateNone(client, idx, n) == idx

\* rotate_api_key of either client; the service's returns early with one key
UsdaRotate(client, idx, n) ==
    IF client = "service" /\ n <= 1 THEN idx ELSE (idx + 1) % n

NoUsdaCall ==
    [client |-> "api", op |-> "none", via |-> "direct", asked |-> NotGiven,
     api_key |-> 0]

UsdaRequest(key, page_size) ==
    [key |-> key, page_size |-> page_size, status |-> "pending"]

\* what the database can do with a request; "exception" is a
\* RequestException other than a status (timeout, connection)
UsdaStatuses == {"200", "429", "500", "exception"}

\* the page sizes a caller or the model asks for
PageSizesAsked == {NotGiven} \cup {Given(n) : n \in {1, 25, 100, 101, 200, 201}}

\* the entry points of a client: the service is called directly; the api
\* client directly, by search_usda_tool or by the averager
EntryPoints(client) ==
    IF client = "service" THEN {"direct"} ELSE {"direct", "tool", "averager"}

\* the call starts: the service returns at once without keys; otherwise the
\* first request goes out with the current key
UsdaCall(client) ==
    /\ usda_pc \in {"idle", "returned"}
    /\ usda_calls < MaxUsdaCalls
    /\ usda_calls' = usda_calls + 1
    /\ \E op \in {"search", "details"}, via \in EntryPoints(client),
          asked \in PageSizesAsked :
          /\ op = "details" => (via = "direct" /\ asked = NotGiven)
          /\ usda_call' = [client |-> client, op |-> op, via |-> via, asked |-> asked,
                            api_key |-> usda_key_index]
          /\ IF client = "service" /\ usda_pool = 0
             THEN /\ usda_pc' = "returned"
                  /\ usda_requests' = <<>>
                  /\ usda_result' = "not configured"
             ELSE /\ usda_pc' = "waiting"
                  /\ usda_requests' =
                        <<UsdaRequest(usda_key_index,
                                      IF op = "search"
                                      THEN SentPageSize(client, via, asked) ELSE 0)>>
                  /\ usda_result' = "none"
    /\ UNCHANGED <<usda_key_index, usda_pool, pipeVars, chatVars, avgVars,
                   portionVars, viewVars, parseVars, sumVars, termVars, fmtVars, cacheVars>>

\* the pending request is answered: a 429 to the first request rotates the
\* key, puts the new current key into params and enters time.sleep(1);
\* anything else ends the call
UsdaRespond ==
    /\ usda_pc = "waiting"
    /\ \E status \in UsdaStatuses :
          LET n == Len(usda_requests)
              answered == [usda_requests EXCEPT ![n].status = status]
          IN  /\ usda_requests' = answered
              /\ IF n = 1 /\ status = "429"
                 THEN /\ usda_key_index' =
                            UsdaRotate(usda_call.client, usda_key_index, usda_pool)
                      /\ usda_call' = [usda_call EXCEPT !.api_key = usda_key_index']
                      /\ usda_pc' = "sleeping"
                      /\ UNCHANGED usda_result
                 ELSE /\ usda_pc' = "returned"
                      /\ usda_result' = IF status = "200" THEN "data" ELSE "failure"
                      /\ UNCHANGED <<usda_key_index, usda_call>>
    /\ UNCHANGED <<usda_calls, usda_pool, pipeVars, chatVars, avgVars,
                   portionVars, viewVars, parseVars, sumVars, termVars, fmtVars, cacheVars>>

\* time.sleep(1) is over: the request is sent once more, with the key that
\* was put into params before the sleep
UsdaResend ==
    /\ usda_pc = "sleeping"
    /\ usda_pc' = "waiting"
    /\ usda_requests' =
          Append(usda_requests,
                 UsdaRequest(usda_call.api_key, usda_requests[1].page_size))
    /\ UNCHANGED <<usda_call, usda_result, usda_calls, usda_key_index, usda_pool,
                   pipeVars, chatVars, avgVars, portionVars, viewVars, parseVars,
                   sumVars, termVars, fmtVars, cacheVars>>

\* rotate_api_key called on its own, by another user of the client: at any
\* time, also while a call waits or sleeps
UsdaRotateCall ==
    /\ usda_key_index' = UsdaRotate(usda_call.client, usda_key_index, usda_pool)
    /\ usda_key_index' # usda_key_index
    /\ UNCHANGED <<usda_pc, usda_call, usda_requests, usda_result, usda_calls,
                   usda_pool, pipeVars, chatVars, avgVars, portionVars, viewVars,
                   parseVars, sumVars, termVars, fmtVars, cacheVars>>

NextUsda ==
    \/ \E client \in {"api", "service"} : usda_call.client = client /\ UsdaCall(client)
    \/ UsdaRespond
    \/ UsdaResend
    \/ UsdaRotateCall

\* ------------------------------------------------ Stage 1 answer parsing
\* The answer's content is a sequence of pieces: "fence_json" and "fence"
\* (three backquotes, with and without the word json), "nl" (whitespace),
\* "{" and "}", "text" (prose), "foods", a member whose key is the parser's
\* food key and whose value is an array of one food object named apple, and
\* "no_foods", the same member with an empty array. Parsing works on the
\* lexemes of the content: "foods" is the five lexemes  key[  {  name  }  ],
\* "no_foods" the two lexemes  key[  ].

Pieces == {"fence_json", "fence", "nl", "{", "}", "text", "foods", "no_foods"}

Lexemes(piece) ==
    CASE piece = "foods" -> <<"key[", "{", "name", "}", "]">>
      [] piece = "no_foods" -> <<"key[", "]">>
      [] OTHER -> <<piece>>

RECURSIVE Lex(_)
Lex(content) ==
    IF content = <<>> THEN <<>> ELSE Lexemes(Head(content)) \o Lex(Tail(content))

\* str.strip()
RECURSIVE LStrip(_)
LStrip(s) == IF s # <<>> /\ Head(s) = "nl" THEN LStrip(Tail(s)) ELSE s

RECURSIVE RStrip(_)
RStrip(s) ==
    IF s # <<>> /\ s[Len(s)] = "nl" THEN RStrip(SubSeq(s, 1, Len(s) - 1)) ELSE s

Strip(s) == RStrip(LStrip(s))

\* the first position from i on that holds no whitespace
RECURSIVE SkipWs(_, _)
SkipWs(s, i) == IF i <= Len(s) /\ s[i] = "nl" THEN SkipWs(s, i + 1) ELSE i

At(s, i) == IF i >= 1 /\ i <= Len(s) THEN s[i] ELSE "end"

\* json.loads on an object: the position after the object that starts at i,
\* 0 when no well-formed object starts there. An object holds any number of
\* members, each "name" or the food key with an array of any number of
\* objects; the commas between members and between elements belong to the
\* lexemes.
RECURSIVE ObjectEnd(_, _), MembersEnd(_, _), ArrayEnd(_, _)
ObjectEnd(s, i) ==
    IF At(s, i) # "{" THEN 0 ELSE MembersEnd(s, SkipWs(s, i + 1))

\* the position after the "}" that closes the object whose next member, or
\* whose "}", stands at j
MembersEnd(s, j) ==
    CASE At(s, j) = "}" -> j + 1
      [] At(s, j) = "name" -> MembersEnd(s, SkipWs(s, j + 1))
      [] At(s, j) = "key[" ->
            LET e == ArrayEnd(s, SkipWs(s, j + 1))
            IN  IF e = 0 THEN 0 ELSE MembersEnd(s, SkipWs(s, e))
      [] OTHER -> 0

\* the position after the "]" that closes the array whose next element, or
\* whose "]", stands at j
ArrayEnd(s, j) ==
    CASE At(s, j) = "]" -> j + 1
      [] At(s, j) = "{" ->
            LET e == ObjectEnd(s, j)
            IN  IF e = 0 THEN 0 ELSE ArrayEnd(s, SkipWs(s, e))
      [] OTHER -> 0

\* json.loads succeeds: the text is one object, whitespace around it allowed
IsJsonObject(s) ==
    LET i == SkipWs(s, 1)
        e == ObjectEnd(s, i)
    IN  e # 0 /\ SkipWs(s, e) = Len(s) + 1

\* whether the well-formed object whose next member stands at j has a name
RECURSIVE HasName(_, _)
HasName(s, j) ==
    CASE At(s, j) = "name" -> TRUE
      [] At(s, j) = "key[" -> HasName(s, SkipWs(s, ArrayEnd(s, SkipWs(s, j + 1))))
      [] OTHER -> FALSE

\* the foods of the well-formed array whose next element stands at j: "apple"
\* for an object with a name, "unnamed" for one without
RECURSIVE ArrayFoods(_, _)
ArrayFoods(s, j) ==
    IF At(s, j) # "{" THEN <<>>
    ELSE <<IF HasName(s, SkipWs(s, j + 1)) THEN "apple" ELSE "unnamed">>
         \o ArrayFoods(s, SkipWs(s, ObjectEnd(s, j)))

\* the value the loaded object has for the food key, its next member standing
\* at j: the array of the last member with that key, acc when there is none
RECURSIVE MemberFoods(_, _, _)
MemberFoods(s, j, acc) ==
    CASE At(s, j) = "name" -> MemberFoods(s, SkipWs(s, j + 1), acc)
      [] At(s, j) = "key[" ->
            MemberFoods(s, SkipWs(s, ArrayEnd(s, SkipWs(s, j + 1))),
                        ArrayFoods(s, SkipWs(s, j + 1)))
      [] OTHER -> acc

\* the value of the food key in the loaded object: the names of its foods,
\* empty when the object has no such key (data.get(key, []))
FoodsOf(s) == MemberFoods(s, SkipWs(s, SkipWs(s, 1) + 1), <<>>)

\* the greedy re.search for an object: from the first "{" to the last "}"
FirstOpen(s) ==
    IF \E i \in 1..Len(s) : s[i] = "{"
    THEN CHOOSE i \in 1..Len(s) : s[i] = "{" /\ \A j \in 1..(i - 1) : s[j] # "{"
    ELSE 0

LastClose(s) ==
    IF \E i \in 1..Len(s) : s[i] = "}"
    THEN CHOOSE i \in 1..Len(s) : s[i] = "}" /\ \A j \in (i + 1)..Len(s) : s[j] # "}"
    ELSE 0

JsonMatch(s) ==
    IF FirstOpen(s) # 0 /\ LastClose(s) > FirstOpen(s)
    THEN SubSeq(s, FirstOpen(s), LastClose(s)) ELSE <<>>

ParseResult(kind, foods, error) == [kind |-> kind, foods |-> foods, error |-> error]

\* identify_foods_in_image on a successful completion
IdentifyFoods(content) ==
    LET json_match == JsonMatch(Lex(content))
    IN  IF json_match = <<>>
        THEN ParseResult("failure", <<>>, "No JSON found in response")
        ELSE IF IsJsonObject(json_match)
        THEN ParseResult("foods", FoodsOf(json_match), "none")
        ELSE ParseResult("failure", <<>>, "Invalid JSON in response")

\* mutant: the fence markers are left in place
CleanNothing(content) == Strip(content)

\* clean_json_response
CleanJsonResponse(content) ==
    LET cleaned == Strip(content)
        opened == IF cleaned # <<>> /\ Head(cleaned) \in {"fence_json", "fence"}
                  THEN Tail(cleaned) ELSE cleaned
        closed == IF opened # <<>> /\ opened[Len(opened)] = "fence"
                  THEN SubSeq(opened, 1, Len(opened) - 1) ELSE opened
    IN  Strip(closed)

\* Stage 1 of analyze_food_image_two_stage on a 200 answer: the foods of the
\* cleaned content (a food without a name gets the name for unknown foods), the placeholder
\* food when it does not load
ViewStage1(content) ==
    LET cleaned == Lex(CleanJsonResponse(content))
    IN  IF IsJsonObject(cleaned)
        THEN ParseResult("foods",
                         [j \in 1..Len(FoodsOf(cleaned)) |->
                             IF FoodsOf(cleaned)[j] = "unnamed"
                             THEN "unknown food" ELSE FoodsOf(cleaned)[j]],
                         "none")
        ELSE ParseResult("placeholder", <<"unidentified food">>, "none")

ParseAnswer ==
    /\ parse_pc = "called"
    /\ parse_pc' = "returned"
    /\ parse_result' = IF parse_call.parser = "analyzer"
                       THEN IdentifyFoods(parse_call.content)
                       ELSE ViewStage1(parse_call.content)
    /\ UNCHANGED <<parse_call, pipeVars, chatVars, avgVars, portionVars, viewVars,
                   usdaVars, sumVars, termVars, fmtVars, cacheVars>>

NextParse == ParseAnswer

\* --------------------------------- _generate_summary, the nutrition totals
\* A result is [success, payload, has_per100g, per100g, food]: payload is
\* "nutrition_data", "note" (raw_response with a note) or "none" (a failure);
\* per100g holds hundredths, a key the data lacks counting 0.

\* the results whose values enter the totals
Counted(r) == r.success /\ r.payload = "nutrition_data" /\ r.has_per100g

\* the sum over the counted results of per-100g value times weight, in
\* hundredths of hundredths (the division by 100.0 is left to the rounding)
RECURSIVE WeightedSum(_, _)
WeightedSum(rs, k) ==
    IF rs = <<>> THEN 0
    ELSE (IF Counted(Head(rs))
          THEN Head(rs).per100g[k] * EstimatedWeight(Head(rs).food) ELSE 0)
         + WeightedSum(Tail(rs), k)

RECURSIVE CountedLookups(_)
CountedLookups(rs) ==
    IF rs = <<>> THEN 0
    ELSE (IF Counted(Head(rs)) THEN 1 ELSE 0) + CountedLookups(Tail(rs))

\* mutant: every food's share is rounded before it is added
RECURSIVE TotalOfRoundedShares(_, _, _)
TotalOfRoundedShares(rs, k, up) ==
    IF rs = <<>> THEN 0
    ELSE (IF Counted(Head(rs))
          THEN RoundToTenth(Head(rs).per100g[k] * EstimatedWeight(Head(rs).food),
                            100, up)
          ELSE 0)
         + TotalOfRoundedShares(Tail(rs), k, up)

\* total_nutrition[k] = round(sum, 1)
TotalNutrient(rs, k, up) == RoundToTenth(WeightedSum(rs, k), 100, up)

\* the summaries _generate_summary can return for the results: one per way
\* the exact ties can round
SummaryTotals(rs) ==
    LET ties == {k \in PortionKeys : IsTie(WeightedSum(rs, k), 100)}
    IN  {[total_foods_identified |-> Len(rs),
          successful_nutrition_lookups |-> CountedLookups(rs),
          total_nutrition |-> [k \in PortionKeys |-> TotalNutrient(rs, k, k \in ups)]] :
         ups \in SUBSET ties}

NoTotals == [total_foods_identified |-> 0, successful_nutrition_lookups |-> 0,
             total_nutrition |-> [k \in PortionKeys |-> 0]]

Summarize ==
    /\ sum_pc = "called"
    /\ sum_pc' = "returned"
    /\ sum_result' \in SummaryTotals(sum_call)
    /\ UNCHANGED <<sum_call, pipeVars, chatVars, avgVars, portionVars, viewVars,
                   usdaVars, parseVars, termVars, fmtVars, cacheVars>>

NextSummary == Summarize

\* ------------------- lookup_nutrition_for_food, the search terms it prepares
\* A food item is [name, cooking_method, has_terms, search_terms]:
\* cooking_method "" stands for an absent or empty one, has_terms tells
\* whether the item has the key search_terms. A term is the sequence of its
\* words, which a single space separates.

PlainTerm(word) == <<word>>

\* [f"{term} {cooking_method}" for term in search_terms]
EnhancedTerms(terms, cooking_method) ==
    [j \in 1..Len(terms) |-> Append(terms[j], cooking_method)]

\* the list after "search_terms.extend(enhanced_terms)", which runs for a
\* cooking method other than "" and "unknown"
ExtendedTerms(terms, cooking_method) ==
    IF cooking_method \notin {"", "unknown"}
    THEN terms \o EnhancedTerms(terms, cooking_method)
    ELSE terms

\* food_item.get("search_terms", [food_item.get("name", "")]): the item's own
\* list when it has one, else a new list holding the name
TermsOf(food) ==
    IF food.has_terms THEN food.search_terms ELSE <<PlainTerm(food.name)>>

\* the food item after the terms were prepared: extend works in place, on
\* the item's own list when search_terms is that list
FoodAfterTerms(food) ==
    IF food.has_terms
    THEN [food EXCEPT !.search_terms = ExtendedTerms(@, food.cooking_method)]
    ELSE food

\* the conversation's user message is built: ', '.join(search_terms[:3])
PrepareTerms ==
    /\ term_pc = "called"
    /\ term_pc' = "sent"
    /\ term_sent' = Take(ExtendedTerms(TermsOf(term_food), term_food.cooking_method), 3)
    /\ term_food' = FoodAfterTerms(term_food)
    /\ UNCHANGED <<term_given, pipeVars, chatVars, avgVars, portionVars, viewVars,
                   usdaVars, parseVars, sumVars, fmtVars, cacheVars>>

\* lookup_nutrition_for_food is called once more on the same food item
LookupAgain ==
    /\ term_pc = "sent"
    /\ Len(term_food.search_terms) <= MaxTerms
    /\ term_pc' = "called"
    /\ UNCHANGED <<term_given, term_food, term_sent, pipeVars, chatVars, avgVars,
                   portionVars, viewVars, usdaVars, parseVars, sumVars, fmtVars,
                   cacheVars>>

NextTerms == PrepareTerms \/ LookupAgain

\* --------------------------------------- format_nutrition_info on a record

FormatInfo ==
    /\ fmt_pc = "called"
    /\ fmt_pc' = "returned"
    /\ fmt_result' = FormatNutritionInfo(fmt_call)
    /\ UNCHANGED <<fmt_call, pipeVars, chatVars, avgVars, portionVars, viewVars,
                   usdaVars, parseVars, sumVars, termVars, cacheVars>>

NextFormat == FormatInfo

\* ------------------------------- testing/food_nutrition_pipeline.py: the cache
\* Strings are sequences of pieces; a dict is a record whose fields are the
\* keys it holds; a nutrients dict is a set of <<name, amount>> pairs.

\* str.lower on one piece
LowerPiece(p) ==
    CASE p = "Apple" -> "apple"
      [] p = "Raw" -> "raw"
      [] OTHER -> p

\* str.lower
Lower(str) == [i \in DOMAIN str |-> LowerPiece(str[i])]

\* f"{food_name.lower()}_{cooking_method.lower()}"
CacheKey(food_name, cooking_method) ==
    Lower(food_name) \o <<"_">> \o Lower(cooking_method)

\* dict.get(key, default)
DictGet(d, key, default) == IF key \in DOMAIN d THEN d[key] ELSE default

\* round(amount * weight_factor, 2) with weight_factor = grams / 100.0, in
\* floats: the amount and the result are in hundredths
AdjustedAmount(amount, grams) ==
    RoundDecimal(FloatMul(FloatDiv(amount, 100), FloatDiv(grams, 100)), 100)

\* _calculate_nutrition_for_weight; fdc_id 0 stands for None
CalculateNutritionForWeight(nutrition_info, estimated_weight_grams) ==
    [description |-> DictGet(nutrition_info, "description", "Unknown"),
     fdc_id |-> DictGet(nutrition_info, "fdc_id", 0),
     estimated_weight_grams |-> estimated_weight_grams,
     nutrition_per_100g |-> DictGet(nutrition_info, "nutrients", {}),
     nutrition_for_portion |->
        {<<n[1], AdjustedAmount(n[2], estimated_weight_grams)>> :
            n \in DictGet(nutrition_info, "nutrients", {})},
     data_source |-> "USDA FoodData Central"]

\* nutrition_with_weight.update({match_score, search_term_used, data_type})
WithMatchMetadata(nutrition_with_weight, match) ==
    [description |-> nutrition_with_weight.description,
     fdc_id |-> nutrition_with_weight.fdc_id,
     estimated_weight_grams |-> nutrition_with_weight.estimated_weight_grams,
     nutrition_per_100g |-> nutrition_with_weight.nutrition_per_100g,
     nutrition_for_portion |-> nutrition_with_weight.nutrition_for_portion,
     data_source |-> nutrition_with_weight.data_source,
     match_score |-> match.score,
     search_term_used |-> match.search_term,
     data_type |-> match.data_type]

\* the loop over unique_matches: one alternative per match whose details were
\* fetched and formatted, in the matches' order
RECURSIVE Alternatives(_, _)
Alternatives(unique_matches, estimated_weight) ==
    IF unique_matches = <<>> THEN <<>>
    ELSE LET match == Head(unique_matches)
             rest == Alternatives(Tail(unique_matches), estimated_weight)
         IN  IF match.detailed
             THEN <<WithMatchMetadata(
                      CalculateNutritionForWeight(match.nutrition_info,
                                                  estimated_weight), match)>> \o rest
             ELSE rest

\* the value _search_usda_food returns; None has found = FALSE
SearchResult(alternatives) ==
    [found |-> TRUE, primary_match |-> alternatives[1],
     alternatives |-> alternatives, total_alternatives |-> Len(alternatives)]

NoSearchResult == [found |-> FALSE, alternatives |-> <<>>, total_alternatives |-> 0]

\* _build_search_terms_from_recognition for a food name of one word that is
\* none of the words _normalize_food_name removes, and a cooking method other
\* than "" and "unknown": "name, method", "name method" and the name, all in
\* lower case
BuildSearchTermsFromRecognition(food_name, cooking_method) ==
    <<Lower(food_name) \o <<", ">> \o Lower(cooking_method),
      Lower(food_name) \o <<" ">> \o Lower(cooking_method),
      Lower(food_name)>>

\* unique_matches: the ranked matches of distinct fdcId that the searches for
\* this food name and cooking method yield, which depend on the two strings
\* through their lower-case forms only; each match holds the search term
\* that found it and the data type of its food item
UniqueMatches(db, food_name, cooking_method) ==
    LET found == db[<<Lower(food_name), Lower(cooking_method)>>]
        search_terms == BuildSearchTermsFromRecognition(food_name, cooking_method)
    IN  [j \in 1..Len(found) |->
            [score |-> found[j].score,
             search_term |-> search_terms[found[j].term],
             data_type |-> found[j].data_type,
             detailed |-> found[j].detailed,
             nutrition_info |-> found[j].nutrition_info]]

\* _search_usda_food past the cache test: the lookup against the database
UncachedLookup(db, food_name, cooking_method, estimated_weight) ==
    LET alternatives ==
            Alternatives(UniqueMatches(db, food_name, cooking_method),
                         estimated_weight)
    IN  IF alternatives = <<>> THEN NoSearchResult ELSE SearchResult(alternatives)

\* _search_usda_food when cache_key is in food_name_cache
CachedLookup(cached_result, estimated_weight) ==
    LET primary_nutrition ==
            CalculateNutritionForWeight(cached_result, estimated_weight)
    IN  [found |-> TRUE, primary_match |-> primary_nutrition,
         alternatives |-> <<primary_nutrition>>, total_alternatives |-> 1]

\* "self.food_name_cache[cache_key] = alternatives[0]"
CacheStore(cache, key, value) ==
    [k \in DOMAIN cache \cup {key} |-> IF k = key THEN value ELSE cache[k]]

CacheCall(food_name, cooking_method, estimated_weight, hit) ==
    [food_name |-> food_name, cooking_method |-> cooking_method,
     estimated_weight |-> estimated_weight, hit |-> hit]

\* the food names, cooking methods and weights of the calls
FoodNames == {<<"apple">>, <<"Apple">>, <<"apple", "_", "raw">>}

MethodNames == {<<"raw">>, <<"raw", "_", "raw">>}

Weights == {100, 150}

\* the info format_nutrition_info of foods/test_usda_nutrition.py returns for a
\* record, by the keys _calculate_nutrition_for_weight reads: description,
\* fdc_id and the nutrients per 100 g under the names of key_nutrients
NutritionInfo(description, fdc_id, nutrients) ==
    [description |-> description, fdc_id |-> fdc_id, nutrients |-> nutrients]

\* a ranked match of the database: its score, which of the lookup's search
\* terms found it first, the dataType of its food item and the outcome of
\* fetching its details
Match(score, term, data_type, detailed, nutrition_info) ==
    [score |-> score, term |-> term, data_type |-> data_type,
     detailed |-> detailed, nutrition_info |-> nutrition_info]

ApplesRaw ==
    NutritionInfo("Apples, raw", 171688,
                  {<<"Energy (kcal)", 5200>>, <<"Protein (g)", 30>>})

ApplesDried == NutritionInfo("Apples, dried", 171689, {<<"Energy (kcal)", 24330>>})

\* what the database can hold for one food name and cooking method
MatchLists ==
    {<<>>,
     <<Match(90, 1, "Foundation", TRUE, ApplesRaw)>>,
     <<Match(90, 1, "Foundation", FALSE, ApplesRaw),
       Match(50, 3, "SR Legacy", TRUE, ApplesDried)>>,
     <<Match(70, 2, "SR Legacy", TRUE, ApplesDried),
       Match(60, 1, "Unknown", TRUE, ApplesRaw)>>}

\* a call of _search_usda_food that finds its key in the cache
SearchUsdaFoodCached ==
    /\ cache_lookups < MaxLookups
    /\ \E food_name \in FoodNames, cooking_method \in MethodNames,
          estimated_weight \in Weights :
          LET cache_key == CacheKey(food_name, cooking_method)
          IN  /\ cache_key \in DOMAIN food_name_cache
              /\ cache_call' = CacheCall(food_name, cooking_method,
                                         estimated_weight, TRUE)
              /\ cache_result' = CachedLookup(food_name_cache[cache_key],
                                              estimated_weight)
    /\ cache_lookups' = cache_lookups + 1
    /\ UNCHANGED <<food_name_cache, cache_db, pipeVars, chatVars, avgVars,
                   portionVars, viewVars, usdaVars, parseVars, sumVars, termVars,
                   fmtVars>>

\* a call of _search_usda_food that does not: the database is searched and the
\* best alternative, if any, is stored
SearchUsdaFoodUncached ==
    /\ cache_lookups < MaxLookups
    /\ \E food_name \in FoodNames, cooking_method \in MethodNames,
          estimated_weight \in Weights :
          LET cache_key == CacheKey(food_name, cooking_method)
              result == UncachedLookup(cache_db, food_name, cooking_method,
                                       estimated_weight)
          IN  /\ cache_key \notin DOMAIN food_name_cache
              /\ cache_call' = CacheCall(food_name, cooking_method,
                                         estimated_weight, FALSE)
              /\ cache_result' = result
              /\ food_name_cache' =
                    IF result.found
                    THEN CacheStore(food_name_cache, cache_key, result.primary_match)
                    ELSE food_name_cache
    /\ cache_lookups' = cache_lookups + 1
    /\ UNCHANGED <<cache_db, pipeVars, chatVars, avgVars, portionVars, viewVars,
                   usdaVars, parseVars, sumVars, termVars, fmtVars>>

NextCache ==
    \/ SearchUsdaFoodCached
    \/ SearchUsdaFoodUncached

Next ==
    \/ AnalyzeStart
    \/ Stage1Fails
    \/ Stage1Succeeds
    \/ \E i \in 1..MaxFoods : TaskStart(i)
    \/ \E i \in 1..MaxFoods : ModelTurn(i)
    \/ TaskFinished

InitPipe(cfgIter, budget, nfoods, concurrent, callback) ==
    /\ pc = "init"
    /\ events = <<>>
    /\ completed = <<>>
    /\ progress_callback = callback
    /\ stage1_runs = 0
    /\ foods_identified = <<>>
    /\ tasks = <<>>
    /\ results = <<>>
    /\ report = NoReport
    /\ max_iterations = cfgIter
    /\ max_tool_requests = budget
    /\ max_foods = nfoods
    /\ max_concurrent_foods = concurrent

\* no analysis is running
IdlePipe ==
    /\ InitPipe(MaxIterations, 0, 0, MaxConcurrentFoods, FALSE)

InitChatWith(ncallers, npool, retries) ==
    /\ callers = [k \in 1..ncallers |-> IdleCaller]
    /\ current_key_index = 0
    /\ pool_size = npool
    /\ max_retries = retries

\* no completion call is modelled
IdleChat == InitChatWith(0, 1, MaxRetries)

\* no averager call is modelled
IdleAvg ==
    /\ avg_pc = "idle"
    /\ avg_call = [search |-> [outcome |-> "none", foods |-> <<>>], top_count |-> 0]
    /\ avg_result = AvgNone

\* the portion computation is not modelled
IdlePortion ==
    /\ portion_pc = "idle"
    /\ portion_call = [food |-> [has_weight |-> FALSE, weight |-> 0],
                       success |-> FALSE, has_per100g |-> FALSE,
                       per100g |-> [k \in PortionKeys |-> 0]]
    /\ portion_result = NoCombined

\* the view's USDA stage is not modelled
IdleView ==
    /\ view_pc = "idle"
    /\ view_portions = [portions |-> <<>>, next |-> 1, answers |-> <<>>]
    /\ nutrition_data = <<>>

\* no database call is modelled
IdleUsda ==
    /\ usda_pc = "idle"
    /\ usda_call = NoUsdaCall
    /\ usda_requests = <<>>
    /\ usda_result = "none"
    /\ usda_calls = 0
    /\ usda_key_index = 0
    /\ usda_pool = 1

\* no answer is being parsed
IdleParse ==
    /\ parse_pc = "idle"
    /\ parse_call = [parser |-> "analyzer", content |-> <<>>]
    /\ parse_result = ParseResult("none", <<>>, "none")

\* no summary is being computed
IdleSummary ==
    /\ sum_pc = "idle"
    /\ sum_call = <<>>
    /\ sum_result = NoTotals

FoodItem(name, method, has_terms, terms) ==
    [name |-> name, cooking_method |-> method, has_terms |-> has_terms,
     search_terms |-> terms]

\* no search terms are being prepared
IdleTerms ==
    /\ term_pc = "idle"
    /\ term_given = FoodItem("none", "", FALSE, <<>>)
    /\ term_food = FoodItem("none", "", FALSE, <<>>)
    /\ term_sent = <<>>

\* no record is being formatted
IdleFormat ==
    /\ fmt_pc = "idle"
    /\ fmt_call = NoDetail
    /\ fmt_result = FormatNutritionInfo(NoDetail)

\* no pipeline of the testing directory is modelled
NoCacheCall == CacheCall(<<>>, <<>>, 0, FALSE)

IdleCache ==
    /\ food_name_cache = <<>>
    /\ cache_db = <<>>
    /\ cache_call = NoCacheCall
    /\ cache_result = NoSearchResult
    /\ cache_lookups = 0

IdleAux ==
    IdleUsda /\ IdleParse /\ IdleSummary /\ IdleTerms /\ IdleFormat /\ IdleCache

\* analyze_food_image under the default configuration, and with a single
\* lookup agent
Init ==
    /\ \E m \in {1, MaxConcurrentFoods}, callback \in BOOLEAN :
          InitPipe(MaxIterations, ToolBudget, MaxFoods, m, callback)
    /\ IdleChat /\ IdleAvg /\ IdlePortion /\ IdleView /\ IdleAux

Spec == Init /\ [][Next]_vars

\* one resolution, the model asking for tools beyond max_iterations turns;
\* max_iterations is the configured default or the smallest positive value
InitLoop ==
    /\ IdleAux
    /\ \E cfgIter \in {1, MaxIterations} :
          InitPipe(cfgIter, MaxIterations + ExtraTurns, 1, MaxConcurrentFoods, FALSE)
    /\ IdleChat
    /\ IdleAvg
    /\ IdlePortion
    /\ IdleView

SpecLoop == InitLoop /\ [][Next]_vars

\* calls of chat_completion on one client: any pool size, any max_retries up
\* to the default
InitChat ==
    /\ IdleAux
    /\ IdlePipe
    /\ IdleAvg
    /\ IdlePortion
    /\ IdleView
    /\ \E n \in 1..MaxCallers, np \in 1..MaxPool, r \in 0..MaxRetries :
          InitChatWith(n, np, r)

SpecChat == InitChat /\ [][NextChat]_vars

\* the averager called with any top_count and any answer of the database
InitAvg ==
    /\ IdleAux
    /\ IdlePipe
    /\ IdleChat
    /\ IdlePortion
    /\ IdleView
    /\ avg_pc = "called"
    /\ avg_result = AvgNone
    /\ \E n \in 1..MaxTop, fs \in SearchFoods, o \in {"ok", "none", "raises"} :
          /\ o # "ok" => fs = <<>>
          /\ avg_call = [search |-> [outcome |-> o, foods |-> fs], top_count |-> n]

SpecAvg == InitAvg /\ [][NextAvg]_vars

\* the weights and per-100g values a food and its lookup can carry
PortionWeights == {0, 50, 100, 150}
PortionCalories == {0, 5200, 5225, 8935}
PortionProtein == {0, 30, 1115}
PortionFiber == {0, 240}

\* one food and its nutrition result handed to the combination: the food with
\* or without estimated_weight_grams, the result failed, or successful with or
\* without nutrition_per_100g
InitPortion ==
    /\ IdleAux
    /\ IdlePipe
    /\ IdleChat
    /\ IdleAvg
    /\ IdleView
    /\ portion_pc = "called"
    /\ portion_result = NoCombined
    /\ \E hw \in BOOLEAN, w \in PortionWeights, ok \in BOOLEAN, h \in BOOLEAN,
          c \in PortionCalories, pr \in PortionProtein, fi \in PortionFiber :
          /\ ~hw => w = 0
          /\ ~ok => ~h
          /\ ~h => (c = 0 /\ pr = 0 /\ fi = 0)
          /\ portion_call =
                [food |-> [has_weight |-> hw, weight |-> w],
                 success |-> ok, has_per100g |-> h,
                 per100g |-> [k \in PortionKeys |->
                                 CASE k = "calories" -> c
                                   [] k = "protein_g" -> pr
                                   [] k = "fiber_g" -> fi
                                   [] OTHER -> 0]]

SpecPortion == InitPortion /\ [][NextPortion]_vars

\* the portions Stage 2 can report: a name, which may be empty, or none
Portions ==
    {[name |-> n, estimated_grams |-> 100] : n \in Names \cup {""}}
    \cup {[estimated_grams |-> 100]}

\* the view's USDA stage entered with any list of portions
InitView ==
    /\ IdleAux
    /\ IdlePipe
    /\ IdleChat
    /\ IdleAvg
    /\ IdlePortion
    /\ view_pc = "stage3"
    /\ nutrition_data = <<>>
    /\ \E ps \in SeqsUpTo(Portions, MaxFoods) :
          view_portions = [portions |-> ps, next |-> 1, answers |-> <<>>]

SpecView == InitView /\ [][NextView]_vars

\* a client of either class with its pool of keys, the cursor where the
\* constructor puts it; USDANutritionAPI cannot be constructed without keys
InitUsda ==
    /\ IdlePipe /\ IdleChat /\ IdleAvg /\ IdlePortion /\ IdleView
    /\ IdleParse /\ IdleSummary /\ IdleTerms /\ IdleFormat /\ IdleCache
    /\ usda_pc = "idle"
    /\ usda_requests = <<>>
    /\ usda_result = "none"
    /\ usda_calls = 0
    /\ usda_key_index = 0
    /\ \E client \in {"api", "service"}, n \in 0..MaxPool :
          /\ client = "api" => n >= 1
          /\ usda_pool = n
          /\ usda_call = [NoUsdaCall EXCEPT !.client = client]

SpecUsda == InitUsda /\ [][NextUsda]_vars

\* either parser handed any content of at most MaxPieces pieces
InitParse ==
    /\ IdlePipe /\ IdleChat /\ IdleAvg /\ IdlePortion /\ IdleView
    /\ IdleUsda /\ IdleSummary /\ IdleTerms /\ IdleFormat /\ IdleCache
    /\ parse_pc = "called"
    /\ parse_result = ParseResult("none", <<>>, "none")
    /\ \E parser \in {"analyzer", "view"}, content \in SeqsUpTo(Pieces, MaxPieces) :
          parse_call = [parser |-> parser, content |-> content]

SpecParse == InitParse /\ [][NextParse]_vars

\* the results a resolution can end with: a failure, a note, nutrition data
\* without nutrition_per_100g, or per-100g values for a food with or without
\* estimated_weight_grams
SummaryResults ==
    LET none == [k \in PortionKeys |-> 0]
        nofood == [has_weight |-> FALSE, weight |-> 0]
        shape(ok, payload, h, values, food) ==
            [success |-> ok, payload |-> payload, has_per100g |-> h,
             per100g |-> values, food |-> food]
    IN  {shape(FALSE, "none", FALSE, none, nofood),
         shape(TRUE, "note", FALSE, none, nofood),
         shape(TRUE, "nutrition_data", FALSE, none, nofood)}
        \cup {shape(TRUE, "nutrition_data", TRUE,
                    [k \in PortionKeys |->
                        IF k = "calories" THEN c ELSE IF k = "protein_g" THEN pr ELSE 0],
                    food) :
                c \in {0, 5225}, pr \in {0, 8, 30},
                food \in {nofood} \cup {[has_weight |-> TRUE, weight |-> w] : w \in {50, 150}}}

InitSummary ==
    /\ IdlePipe /\ IdleChat /\ IdleAvg /\ IdlePortion /\ IdleView
    /\ IdleUsda /\ IdleParse /\ IdleTerms /\ IdleFormat /\ IdleCache
    /\ sum_pc = "called"
    /\ sum_result = NoTotals
    /\ sum_call \in SeqsUpTo(SummaryResults, MaxFoods)

SpecSummary == InitSummary /\ [][NextSummary]_vars

\* the cooking methods and search terms Stage 1 can report: a term is one
\* word, or a name followed by a cooking method
CookingMethods == {"", "unknown", "fried", "boiled"}
TermWords == Names \cup {"fruit"}
SearchTerms ==
    {PlainTerm(w) : w \in TermWords} \cup {<<w, "fried">> : w \in Names}

\* a resolution handed any food item of Stage 1: with or without search
\* terms, with or without a cooking method
InitTerms ==
    /\ IdlePipe /\ IdleChat /\ IdleAvg /\ IdlePortion /\ IdleView
    /\ IdleUsda /\ IdleParse /\ IdleSummary /\ IdleFormat /\ IdleCache
    /\ term_pc = "called"
    /\ term_sent = <<>>
    /\ \E name \in Names, method \in CookingMethods, has_terms \in BOOLEAN,
          terms \in SeqsUpTo(SearchTerms, MaxTerms) :
          /\ ~has_terms => terms = <<>>
          /\ term_given = FoodItem(name, method, has_terms, terms)
          /\ term_food = term_given

SpecTerms == InitTerms /\ [][NextTerms]_vars

\* the entries a record's foodNutrients can hold: energy in kcal (1008) and
\* in kJ (2047), zero or not, and protein
RecordEntries ==
    {Entry(1008, 0), Entry(1008, 5200), Entry(2047, 0), Entry(2047, 21800),
     Entry(2047, 2), Entry(1003, 90)}

\* format_nutrition_info handed no record, or any record of at most
\* MaxEntries entries
InitFormat ==
    /\ IdlePipe /\ IdleChat /\ IdleAvg /\ IdlePortion /\ IdleView
    /\ IdleUsda /\ IdleParse /\ IdleSummary /\ IdleTerms /\ IdleCache
    /\ fmt_pc = "called"
    /\ fmt_result = FormatNutritionInfo(NoDetail)
    /\ \/ fmt_call = NoDetail
       \/ \E entries \in SeqsUpTo(RecordEntries, MaxEntries) :
             fmt_call = Detail(1, "Apples, raw", entries)

SpecFormat == InitFormat /\ [][NextFormat]_vars

\* a pipeline just constructed, over any database
InitCache ==
    /\ IdlePipe /\ IdleChat /\ IdleAvg /\ IdlePortion /\ IdleView
    /\ IdleUsda /\ IdleParse /\ IdleSummary /\ IdleTerms /\ IdleFormat
    /\ food_name_cache = <<>>
    /\ cache_call = NoCacheCall
    /\ cache_result = NoSearchResult
    /\ cache_lookups = 0
    /\ cache_db \in [{<<Lower(n), Lower(m)>> : n \in FoodNames, m \in MethodNames}
                        -> MatchLists]

SpecCache == InitCache /\ [][NextCache]_vars

\* ------------------------------------------------- claims: Stage 2 loop

\* C1 (as claimed): a resolution makes at most max_iterations model turns,
\* whatever the model answers.
C1_TurnsWithinMaxIterations ==
    \A i \in 1..Len(tasks) : tasks[i].turns <= max_iterations

\* C2 (as claimed): a resolution reports success only when its last model turn
\* succeeded and was a final message; a failed completion or an exhausted
\* iteration cap is reported with success = FALSE.
C2_SuccessOnlyAfterFinalTurn ==
    \A i \in 1..Len(tasks) :
        (tasks[i].st = "returned" /\ tasks[i].result.success)
            => tasks[i].result.last_turn = "final"

\* C3 (as claimed): once Stage 1 has succeeded no failure of one resolution
\* aborts analyze_food_image, and the report has success = TRUE, one entry per
\* identified food, the entry of a failed resolution being marked failed.
C3_BatchNeverAborted ==
    /\ pc # "raised"
    /\ (pc = "done" /\ report.stage = "complete") =>
          /\ report.success
          /\ Len(report.foods_with_nutrition) = Len(foods_identified)
          /\ \A i \in 1..Len(tasks) :
                tasks[i].result.last_turn # "final"
                    => ~report.foods_with_nutrition[i].nutrition_lookup.success

\* C5 (as claimed): whatever way a requested tool fails, an error payload is
\* appended as the function's result and the next model turn is requested; no
\* exception leaves the resolution.
C5_ToolFailureFedBack ==
    \A i \in 1..Len(tasks) :
        /\ tasks[i].st # "raised"
        /\ (tasks[i].st = "awaiting" /\ tasks[i].tools > 0) =>
              LET c == tasks[i].conv
              IN  /\ c[Len(c)].role = "function"
                  /\ c[Len(c) - 1].role = "assistant"
                  /\ c[Len(c)].name = c[Len(c) - 1].name

\* --------------------------------------------- claims: the orchestrator

\* C6: Stage 1 runs exactly once and has returned before any Stage 2 task
\* exists and before any Stage 2 model or database call is made.
C6_Stage1BeforeStage2 ==
    /\ stage1_runs <= 1
    /\ pc # "init" => stage1_runs = 1
    /\ (tasks # <<>> \/ results # <<>>) =>
          /\ stage1_runs = 1
          /\ pc \notin {"init", "stage1"}
    /\ \A i \in 1..Len(tasks) :
          (tasks[i].turns > 0 \/ tasks[i].tools > 0 \/ tasks[i].st # "scheduled")
              => pc \notin {"init", "stage1"}

C6_Witness ==
    /\ pc = "stage2"
    /\ stage1_runs = 1
    /\ \E i \in 1..Len(tasks) : tasks[i].st = "awaiting" /\ tasks[i].tools = 1

\* C7: whatever the completion order, the report has one entry per identified
\* food, in the foods' order, and the entry's nutrition result is one of the
\* collected results and was computed for a food of the same name.
C7_MatchedByName ==
    (pc = "done" /\ report.stage = "complete") =>
        /\ Len(report.foods_with_nutrition) = Len(foods_identified)
        /\ \A i \in 1..Len(foods_identified) :
              LET e == report.foods_with_nutrition[i]
              IN  /\ e.original_food = foods_identified[i]
                  /\ \E k \in 1..Len(results) : e.nutrition_lookup = results[k]
                  /\ e.nutrition_lookup.food_item.name = foods_identified[i].name

\* two foods of different names whose resolutions finished in reverse order
C7_Witness ==
    /\ pc = "done"
    /\ report.stage = "complete"
    /\ Len(foods_identified) = 2
    /\ foods_identified[1].name # foods_identified[2].name
    /\ results[1].origin = 2
    /\ results[2].origin = 1

\* C14 (as claimed): when the identification call succeeds but its answer
\* holds no JSON object, JSON that does not parse, or an empty food list,
\* Stage 1 yields placeholder foods and the analysis goes on: the report is a
\* success over at least one food.
C14_PlaceholderFoodsOnBadAnswer ==
    (pc = "done" /\ report.error \notin {"encode_image", "max_retries"})
        => (report.success /\ foods_identified # <<>>)

\* C15 (as claimed): when Stage 1 fails because the image cannot be read or
\* the identification call exhausts its retries, the report has success =
\* FALSE and the stage tag "identification", and no resolution is started.
C15_FailureTaggedIdentification ==
    (pc = "done" /\ report.error \in {"encode_image", "max_retries"})
        => /\ ~report.success
           /\ report.stage = "identification"
           /\ tasks = <<>> /\ results = <<>>

\* C15 (amended): in that case the report has success = FALSE and the stage
\* tag "food_identification", Stage 1 has run once, and no resolution has been
\* or will be started.
C15_FailureTaggedFoodIdentification ==
    (report.error \in {"encode_image", "max_retries"})
        => /\ pc = "done"
           /\ ~report.success
           /\ report.stage = "food_identification"
           /\ report.foods_with_nutrition = <<>>
           /\ stage1_runs = 1
           /\ tasks = <<>> /\ results = <<>>

\* the identification call came back with its retries exhausted
C15_Witness ==
    /\ pc = "done"
    /\ report.error = "max_retries"
    /\ ~report.success
    /\ stage1_runs = 1
    /\ tasks = <<>>

\* C16: the tool loop ends at the first model turn that requests no tool.
\* While a resolution waits for a turn every earlier turn requested a tool
\* and the conversation holds, per request and in order, the request followed
\* by the result of that same tool; a resolution ended by a final answer has
\* made one turn more than it executed tools (search, then nutrition, then a
\* final JSON answer: two tools, three turns).
C16_StopsAtFirstFinalTurn ==
    \A i \in 1..Len(tasks) :
        LET t == tasks[i]
        IN  /\ (t.st = "returned" /\ t.result.last_turn = "final")
                  => t.turns = t.tools + 1
            /\ t.st = "awaiting" =>
                  /\ t.turns = t.tools
                  /\ Len(t.conv) = 2 + 2 * t.tools
                  /\ \A j \in 1..t.tools :
                        /\ t.conv[2 * j + 1].role = "assistant"
                        /\ t.conv[2 * j + 1].kind = "function_call"
                        /\ t.conv[2 * j + 2].role = "function"
                        /\ t.conv[2 * j + 2].name = t.conv[2 * j + 1].name

\* two tools were executed and the third turn was the final JSON answer,
\* under the default cap of five
C16_Witness ==
    /\ max_iterations = MaxIterations
    /\ Len(tasks) = 1
    /\ tasks[1].st = "returned"
    /\ tasks[1].turns = 3
    /\ tasks[1].tools = 2
    /\ tasks[1].result.last_turn = "final"
    /\ tasks[1].result.payload = "nutrition_data"

\* C17: an analysis whose Stage 1 found no food completes with a successful
\* report and never raises; its summary has total_foods_identified = 0 and
\* success_rate "0%". With N > 0 foods the rate is successful / N * 100 to one
\* decimal, successful being the lookups counted by the summary.
C17_ZeroFoodsNoDivision ==
    /\ pc = "raised" => foods_identified # <<>>
    /\ (pc = "done" /\ report.stage = "complete") =>
          LET n == Len(foods_identified)
              s == Cardinality({j \in 1..Len(results) :
                                   /\ results[j].success
                                   /\ results[j].payload = "nutrition_data"
                                   /\ results[j].per100g})
              rate == report.summary.success_rate
          IN  /\ report.success
              /\ report.summary.total_foods_identified = n
              /\ report.summary.successful_nutrition_lookups = s
              /\ n = 0 => rate = [tenths |-> 0, format |-> "0%"]
              /\ n > 0 => /\ rate.format = ".1f%"
                          /\ 2 * rate.tenths * n - 2000 * s <= n
                          /\ 2000 * s - 2 * rate.tenths * n <= n

\* Stage 1 succeeded with an empty list and the report is complete
C17_Witness ==
    /\ pc = "done"
    /\ stage1_runs = 1
    /\ foods_identified = <<>>
    /\ report.success
    /\ report.stage = "complete"
    /\ report.summary.total_foods_identified = 0
    /\ report.summary.success_rate.format = "0%"

\* C18: every food's resolution is its own task, and all are started at once:
\* food i goes to agent i mod min(max_concurrent_foods, N), and a resolution
\* not yet started can start however many others are in flight, so with
\* max_concurrent_foods < N all N are in flight together.
C18_AllResolutionsInFlight ==
    \A i \in 1..Len(tasks) :
        /\ tasks[i].agent =
              (i - 1) % (IF max_concurrent_foods <= Len(tasks)
                         THEN max_concurrent_foods ELSE Len(tasks))
        /\ (pc = "stage2" /\ tasks[i].st = "scheduled") => ENABLED TaskStart(i)

\* one agent, two foods, both completions out at the same time
C18_Witness ==
    /\ max_concurrent_foods = 1
    /\ Len(tasks) = 2
    /\ tasks[1].st = "awaiting" /\ tasks[1].agent = 0
    /\ tasks[2].st = "awaiting" /\ tasks[2].agent = 0

\* C19 (as claimed): every nutrient of a resolved food's portion is its
\* per-100g value times the food's weight over 100, the weight being 100 g
\* when the food carries none. Read with half a tenth of tolerance, so that
\* rounding to one decimal alone does not fail it.
C19_PortionUsesWeightOrHundred ==
    (portion_pc = "returned" /\ portion_result.present) =>
        LET w == IF portion_call.food.has_weight
                 THEN portion_call.food.weight ELSE 100
        IN  \A k \in PortionKeys :
                /\ 100 * portion_result.nutrition_per_portion[k]
                       - portion_call.per100g[k] * w <= 500
                /\ portion_call.per100g[k] * w
                       - 100 * portion_result.nutrition_per_portion[k] <= 500

\* C20 (as claimed): a food for whose search term the database answered a
\* list of zero results, to the averager's search and to the fallback's, is
\* recorded by the pipeline that calls the averager with status
\* "no_nutrition_data" and without nutrition values. The j-th lookup made is
\* the j-th entry recorded.
C20_NoResultsRecordedWithoutValues ==
    \A j \in 1..Len(view_portions.answers) :
        LET answer == view_portions.answers[j]
            entry == nutrition_data[j]
        IN  (/\ answer.search = [outcome |-> "ok", foods |-> <<>>]
             /\ answer.fallback = [outcome |-> "ok", foods |-> <<>>]) =>
                /\ "status" \in DOMAIN entry
                /\ entry.status = "no_nutrition_data"
                /\ DOMAIN entry.nutrients = {}

\* ------------------------------------------- claims: the completion client

\* C4: chat_completion issues at most max_retries requests, whatever the
\* outcomes and the pool size; it never waits or sleeps once the last attempt
\* has ended, and a call in which no attempt succeeded returns success = FALSE,
\* error "Maximum retries exceeded", attempts = max_retries.
C4_AtMostMaxRetriesRequests ==
    \A k \in DOMAIN callers :
        LET c == callers[k]
        IN  /\ c.requests <= max_retries
            /\ c.st = "inflight" => c.requests = c.attempt + 1
            /\ c.st = "sleeping" => c.attempt < max_retries - 1
            /\ c.st = "returned" =>
                  IF c.last = "ok"
                  THEN c.result.success
                  ELSE /\ c.result = RetriesExceeded(max_retries)
                       /\ c.requests = max_retries

\* a single credential that answered 429 to every one of the three attempts
C4_Witness ==
    \E k \in DOMAIN callers :
        /\ pool_size = 1
        /\ max_retries = MaxRetries
        /\ callers[k].st = "returned"
        /\ callers[k].last = "429"
        /\ callers[k].requests = MaxRetries
        /\ ~callers[k].result.success

\* the outcomes handled by the three except clauses
BackoffOutcomes == {"http_error", "timeout", "client_error", "unexpected"}

\* C11: what chat_completion does between attempt i and attempt i+1 is fixed
\* by the outcome of attempt i: after 429 or 401 it rotates the cursor once and
\* sends the next request without sleeping; after a timeout, a network error,
\* another non-2xx status or any other exception it sleeps 2^i seconds and
\* does not rotate.
C11_StepFollowsOutcome ==
    \A k \in DOMAIN callers :
        LET c == callers[k]
        IN  /\ (c.st = "inflight" /\ c.attempt > 0) =>
                  /\ c.last \in {"429", "401"} \cup BackoffOutcomes
                  /\ c.last \in {"429", "401"} => (c.rotated = 1 /\ c.slept = 0)
                  /\ c.last \in BackoffOutcomes =>
                        (c.rotated = 0 /\ c.slept = 2 ^ (c.attempt - 1))
            /\ c.st = "sleeping" =>
                  /\ c.last \in BackoffOutcomes
                  /\ c.rotated = 0
                  /\ c.slept = 2 ^ c.attempt
            /\ c.st = "leaving" =>
                  /\ c.last \in {"429", "401"}
                  /\ c.rotated = 1
                  /\ c.slept = 0

\* one call on its third attempt after a timeout of the second (2 s of sleep),
\* another on its second attempt straight after a 429
C11_Witness ==
    \E k, j \in DOMAIN callers :
        /\ callers[k].st = "inflight" /\ callers[k].attempt = 2
        /\ callers[k].last = "timeout" /\ callers[k].slept = 2
        /\ callers[j].st = "inflight" /\ callers[j].attempt = 1
        /\ callers[j].last = "429" /\ callers[j].rotated = 1

\* C12 (as claimed): a call whose last attempt was rejected with 401 returns
\* failure only when every credential of the pool has been tried; a call that
\* made fewer requests than the pool holds credentials cannot have tried all.
C12_FailureOnlyAfterWholePoolTried ==
    \A k \in DOMAIN callers :
        (callers[k].st = "returned" /\ ~callers[k].result.success
            /\ callers[k].last = "401")
        => callers[k].requests >= pool_size

\* the cursor of a client after a number of consecutive rotations; "openai" is
\* the completion client, "api" and "service" the two database clients
RECURSIVE RotatedTimes(_, _, _, _)
RotatedTimes(client, idx, n, times) ==
    IF times = 0 THEN idx
    ELSE RotatedTimes(client,
                      IF client = "openai" THEN RotateApiKey(idx, n)
                      ELSE UsdaRotate(client, idx, n),
                      n, times - 1)

\* C13 (as claimed): the cursor of each of the three clients stays within
\* 0 .. pool size - 1, pool-size rotations bring it back to where it was, and
\* every change of it moves it to its cyclic successor.
C13_CursorValidAndCyclic ==
    /\ [](/\ current_key_index \in 0..(pool_size - 1)
          /\ RotatedTimes("openai", current_key_index, pool_size, pool_size)
                = current_key_index
          /\ usda_key_index \in 0..(usda_pool - 1)
          /\ RotatedTimes(usda_call.client, usda_key_index, usda_pool, usda_pool)
                = usda_key_index)
    /\ [][/\ current_key_index' # current_key_index =>
                current_key_index' = (current_key_index + 1) % pool_size
          /\ usda_key_index' # usda_key_index =>
                usda_key_index' = (usda_key_index + 1) % usda_pool]_vars

\* ----------------------------------------------- claims: the averager
\* The candidates are described from the database's answers, position by
\* position, and not by the averager's own loop.

Candidates == 1..Min(avg_call.top_count, Len(avg_call.search.foods))

CandidateDetail(p) == GetFoodDetails(avg_call.search.foods[p].fdcId)

\* the fetched detail has a calories, protein, fat or carbs entry whose value
\* as format_nutrition_info stores it (kJ converted to kcal and rounded) is
\* positive
ReportsCoreMacro(p) ==
    /\ avg_call.search.foods[p].fdcId # 0
    /\ CandidateDetail(p).found
    /\ \E j \in 1..Len(CandidateDetail(p).foodNutrients) :
          /\ CandidateDetail(p).foodNutrients[j].id \in {1008, 2047, 1003, 1004, 1005}
          /\ StoredAmount(CandidateDetail(p).foodNutrients[j].id,
                          CandidateDetail(p).foodNutrients[j].amount) > 0

ValidCandidates == {p \in Candidates : ReportsCoreMacro(p)}

Reported(p, key) == Get(FormatNutritionInfo(CandidateDetail(p)).nutrients, key)

Contributors(key) == {p \in ValidCandidates : Reported(p, key) > 0}

RECURSIVE SumReported(_, _)
SumReported(P, key) ==
    IF P = {} THEN 0
    ELSE LET p == CHOOSE x \in P : TRUE
         IN  Reported(p, key) + SumReported(P \ {p}, key)

Abs(x) == IF x < 0 THEN -x ELSE x

AvgSucceeded == avg_pc = "returned" /\ avg_result.kind = "success"

\* C8 (as claimed): each nutrient's average is the sum over the valid
\* candidates that reported it positively divided by their number, to the
\* precision of the claim's example (51.33: the nearest hundredth).
C8_ExactMean ==
    AvgSucceeded =>
        \A k \in AvgKeys :
            LET c == Cardinality(Contributors(k))
            IN  c > 0 =>
                  2 * Abs(avg_result.averaged_nutrition[k] * c
                          - SumReported(Contributors(k), k)) <= c

\* C8 (amended): each nutrient's average is that quotient rounded to one
\* decimal place: a multiple of 0.1 at most 0.05 away from sum / count, the
\* count being the candidates that reported the nutrient, not all valid ones.
C8_MeanRoundedToTenth ==
    AvgSucceeded =>
        \A k \in AvgKeys :
            LET c == Cardinality(Contributors(k))
            IN  c > 0 =>
                  /\ avg_result.averaged_nutrition[k] % 10 = 0
                  /\ 2 * Abs(avg_result.averaged_nutrition[k] * c
                             - SumReported(Contributors(k), k)) <= 10 * c

\* calories {52, 48, 54}, fiber {2.4, 2.6}: 51.3 over three, 2.5 over two
C8_Witness ==
    /\ AvgSucceeded
    /\ avg_call.search.foods = <<[fdcId |-> 1], [fdcId |-> 2], [fdcId |-> 3]>>
    /\ avg_call.top_count = 3
    /\ avg_result.averaged_nutrition["calories"] = 5130
    /\ avg_result.averaged_nutrition["fiber"] = 250
    /\ avg_result.valid_results_count = 3

\* C9 (as claimed): every average is >= 0, and is 0.0 exactly when no valid
\* candidate reported a positive value for the nutrient.
C9_ZeroIffNoContributor ==
    AvgSucceeded =>
        \A k \in AvgKeys :
            /\ avg_result.averaged_nutrition[k] >= 0
            /\ avg_result.averaged_nutrition[k] = 0 <=> Contributors(k) = {}

\* C9 (amended): every average is >= 0; it is 0.0 whenever no valid candidate
\* reported a positive value, and otherwise only when the mean of the reported
\* values is at most 0.05, which rounding to one decimal takes to 0.0.
C9_ZeroOnlyIfNoneOrRoundedAway ==
    AvgSucceeded =>
        \A k \in AvgKeys :
            LET c == Cardinality(Contributors(k))
            IN  /\ avg_result.averaged_nutrition[k] >= 0
                /\ c = 0 => avg_result.averaged_nutrition[k] = 0
                /\ (c > 0 /\ avg_result.averaged_nutrition[k] = 0)
                      => SumReported(Contributors(k), k) <= 5 * c

\* fat reported as 0.04 by the only contributor comes out as 0.0, next to a
\* nutrient nobody reported and one that keeps a positive average
C9_Witness ==
    /\ AvgSucceeded
    /\ Contributors("fat") # {}
    /\ avg_result.averaged_nutrition["fat"] = 0
    /\ Contributors("carbs") = {}
    /\ avg_result.averaged_nutrition["carbs"] = 0
    /\ avg_result.averaged_nutrition["calories"] > 0

\* C10: the averager succeeds exactly when one of the first top_count search
\* results is valid; valid_results_count is the number of valid candidates,
\* between 1 and min(top_count, total_results_found); with none it fails.
C10_SuccessIffValidCandidate ==
    avg_pc = "returned" =>
        /\ avg_result.kind = "success" <=> ValidCandidates # {}
        /\ avg_result.kind = "success" =>
              /\ avg_result.valid_results_count = Cardinality(ValidCandidates)
              /\ avg_result.total_results_found = Len(avg_call.search.foods)
              /\ 1 <= avg_result.valid_results_count
              /\ avg_result.valid_results_count
                    <= Min(avg_call.top_count, avg_result.total_results_found)

\* one valid record (protein only) among candidates that are not valid, with
\* a further valid record beyond top_count left out
C10_Witness ==
    /\ AvgSucceeded
    /\ avg_call.top_count = 2
    /\ avg_call.search.foods = <<[fdcId |-> 4], [fdcId |-> 8], [fdcId |-> 1]>>
    /\ avg_result.valid_results_count = 1

\* -------------------------------------------- claims: the database clients

\* C21: a database call issues at most two requests; the second exists only
\* after a 429 to the first, carries the key and the page size that the call
\* put into params (the same key as the first in a pool of one), and
\* whatever answers it ends the call, as does any answer but 429 to the first.
\* The call moves the cursor once, by one cyclic step, when the first answer
\* is 429, reads the retry's key from it there, and at no other point.
C21_SingleRetryAfterRotation ==
    /\ [](LET n == Len(usda_requests)
          IN  /\ n <= 2
              /\ (n = 2 \/ usda_pc = "sleeping") => usda_requests[1].status = "429"
              /\ n = 2 =>
                    /\ usda_requests[2].key = usda_call.api_key
                    /\ usda_pool = 1 => usda_requests[2].key = usda_requests[1].key
                    /\ usda_requests[2].page_size = usda_requests[1].page_size
              /\ (n >= 1 /\ usda_requests[n].status \notin {"pending", "429"}) =>
                    /\ usda_pc = "returned"
                    /\ usda_result = IF usda_requests[n].status = "200"
                                     THEN "data" ELSE "failure"
              /\ (n = 2 /\ usda_requests[2].status = "429") =>
                    (usda_pc = "returned" /\ usda_result = "failure"))
    /\ [][/\ (usda_pc = "waiting" /\ usda_pc' = "sleeping") =>
               /\ usda_key_index' = IF usda_pool <= 1 THEN usda_key_index
                                    ELSE (usda_key_index + 1) % usda_pool
               /\ usda_call'.api_key = usda_key_index'
          /\ (usda_pc' # usda_pc /\ ~(usda_pc = "waiting" /\ usda_pc' = "sleeping")) =>
               usda_key_index' = usda_key_index]_vars

\* C21 witness: with two keys a call was answered 429 twice and has returned,
\* the cursor having been moved by another user of the client as well
C21_Witness ==
    /\ usda_pc = "returned"
    /\ usda_pool = 2
    /\ Len(usda_requests) = 2
    /\ usda_requests[2].status = "429"
    /\ usda_requests[2].key # usda_requests[1].key
    /\ usda_key_index # usda_requests[2].key

\* C22 (as claimed): every search request carries a page size no larger than
\* the maximum: the configured one for the tool, the provider's 200 otherwise.
C22_PageSizeCapped ==
    \A j \in 1..Len(usda_requests) :
        usda_call.op = "search" =>
            usda_requests[j].page_size <=
                (IF usda_call.via = "tool" THEN MaxPageSize ELSE ServiceMaxPageSize)

\* --------------------------------------------- claims: Stage 1 parsing

\* the content is one object holding a food array with a food, wrapped in
\* the two fence markers, whitespace allowed around each part
FencedFoods(content) ==
    LET NotWs(piece) == piece # "nl"
    IN  SelectSeq(content, NotWs) = <<"fence_json", "{", "foods", "}", "fence">>

\* C23: an answer that is a fenced JSON object with a non-empty food array is
\* parsed into the foods of that array by either parser: no failure, no
\* empty list, no placeholder.
C23_FencedObjectParsed ==
    (parse_pc = "returned" /\ FencedFoods(parse_call.content)) =>
        /\ parse_result.kind = "foods"
        /\ parse_result.foods = <<"apple">>

\* C23 witness: the view's parser has returned the foods of a fenced object
\* that has whitespace after the opening fence
C23_Witness ==
    /\ parse_pc = "returned"
    /\ parse_call.parser = "view"
    /\ parse_call.content = <<"fence_json", "nl", "{", "foods", "}", "fence">>
    /\ parse_result.foods = <<"apple">>

\* ------------------------------------------------- claims: the summary

\* the share of result j in nutrient k, and the shares of a set of results
ShareOf(j, k) == sum_call[j].per100g[k] * EstimatedWeight(sum_call[j].food)

RECURSIVE SumShares(_, _)
SumShares(J, k) ==
    IF J = {} THEN 0
    ELSE LET j == CHOOSE x \in J : TRUE
         IN  ShareOf(j, k) + SumShares(J \ {j}, k)

\* C24: each total is the sum, over the results that succeeded with per-100g
\* data, of per-100g value times weight over 100, rounded to one decimal once
\* (so within half a tenth of the exact sum); successful_nutrition_lookups is
\* the number of those results; failures and notes add nothing to either.
C24_TotalsOverCountedOnly ==
    sum_pc = "returned" =>
        LET counted == {j \in 1..Len(sum_call) :
                           /\ sum_call[j].success
                           /\ sum_call[j].payload = "nutrition_data"
                           /\ sum_call[j].has_per100g}
            exact(k) == SumShares(counted, k)
        IN  /\ sum_result.successful_nutrition_lookups = Cardinality(counted)
            /\ \A k \in PortionKeys :
                  /\ sum_result.total_nutrition[k] % 10 = 0
                  /\ 100 * sum_result.total_nutrition[k] - exact(k) <= 500
                  /\ exact(k) - 100 * sum_result.total_nutrition[k] <= 500

\* C24 witness: two counted foods whose protein shares (0.04 g each) round
\* to 0.0 one by one and to 0.1 together
C24_Witness ==
    /\ sum_pc = "returned"
    /\ Len(sum_call) = 2
    /\ \A j \in 1..2 : /\ sum_call[j].has_per100g
                        /\ sum_call[j].per100g["protein_g"] = 8
                        /\ sum_call[j].food.weight = 50
    /\ sum_result.total_nutrition["protein_g"] = 10
    /\ sum_result.successful_nutrition_lookups = 2

\* -------------------------------------- claims: the resolution's frame

\* C25 (as claimed): a resolution leaves the food item it is given as Stage 1
\* produced it, its search_terms list included.
C25_FoodItemUnchanged ==
    term_pc = "sent" => term_food = term_given

\* ------------------------------------------ claims: energy of a record

\* an energy entry's amount in kcal: a kJ amount divided by 4.184, to two
\* decimals
EnergyKcal(e) ==
    IF e.id = 2047 /\ e.amount > 0 THEN RoundNearest(e.amount * 1000, 4184)
    ELSE e.amount

IsEnergy(e) == e.id \in {1008, 2047}

\* the first energy entry, in record order, whose amount in kcal is not 0
RECURSIVE FirstPopulatedEnergy(_)
FirstPopulatedEnergy(entries) ==
    IF entries = <<>> THEN 0
    ELSE IF IsEnergy(Head(entries)) /\ EnergyKcal(Head(entries)) # 0
    THEN EnergyKcal(Head(entries))
    ELSE FirstPopulatedEnergy(Tail(entries))

\* C26: for a record with energy entries, calories is the first populated
\* of them in record order, a kJ amount converted to kcal; it is never the
\* sum of a kcal and a kJ entry that both are populated, nor a kJ amount as
\* it stands.
C26_FirstPopulatedEnergy ==
    (fmt_pc = "returned" /\ fmt_call.found) =>
        LET entries == fmt_call.foodNutrients
            energy == SelectSeq(entries, IsEnergy)
        IN  /\ energy = <<>> <=> "calories" \notin DOMAIN fmt_result.nutrients
            /\ energy # <<>> =>
                  /\ fmt_result.nutrients["calories"] = FirstPopulatedEnergy(entries)
                  /\ \A a, b \in 1..Len(energy) :
                        (energy[a].id = 1008 /\ energy[b].id = 2047
                         /\ energy[a].amount > 0 /\ EnergyKcal(energy[b]) > 0) =>
                            /\ fmt_result.nutrients["calories"]
                                  # energy[a].amount + EnergyKcal(energy[b])
                            /\ fmt_result.nutrients["calories"] # energy[b].amount

\* C26 witness: a record with an empty kcal entry, then energy in kJ, then
\* energy in kcal, reported with the converted kJ amount
C26_Witness ==
    /\ fmt_pc = "returned"
    /\ fmt_call.foodNutrients = <<Entry(1008, 0), Entry(2047, 21800), Entry(1008, 5200)>>
    /\ fmt_result.nutrients["calories"] = 5210

\* ------------------------------------------------------------------ C27
\* the events of a whole analysis of n foods: stage1_start, stage1_complete,
\* stage2_start, n progress events counting 1..n of n, analysis_complete
ProgressRun(n) ==
    [k \in 1..n |-> ProgressEvent("stage2_progress", k, n)]

FullEvents(n) ==
    <<ProgressEvent("stage1_start", 0, 0), ProgressEvent("stage1_complete", 0, 0),
      ProgressEvent("stage2_start", 0, 0)>> \o ProgressRun(n) \o <<AnalysisComplete>>

\* C27 (as claimed): with a progress callback, once analyze_food_image is
\* over after a Stage 1 that succeeded with N foods, the callback has received
\* stage1_start, stage1_complete, stage2_start, N stage2_progress events with
\* completed = 1..N and total = N, and analysis_complete once and last.
C27_EventsCompleteInOrder ==
    (/\ progress_callback
     /\ \/ pc = "raised"
        \/ pc = "done" /\ report.stage = "complete")
        => events = FullEvents(Len(foods_identified))

\* ------------------------------------------------------------------ C28
\* C28 (as claimed): in the final report the i-th entry carries the result
\* that was computed from the i-th identified food, also when two identified
\* foods have the same name, so that every collected result is attached to
\* exactly one food.
C28_EachFoodWithItsOwnResult ==
    (pc = "done" /\ report.stage = "complete") =>
        \A i \in 1..Len(foods_identified) :
            report.foods_with_nutrition[i].nutrition_lookup.origin = i

\* ------------------------------------------------------------------ C29
\* C29 (as claimed): with a pool of at least two credentials, whenever a
\* caller's request is answered 429 or 401 and the caller sends its next
\* attempt, that attempt carries a credential other than the one that was just
\* refused, however the calls that share the cursor interleave.
C29_RetryOnDifferentCredential ==
    [][\A k \in DOMAIN callers :
          (/\ pool_size >= 2
           /\ callers'[k].st = "inflight"
           /\ callers'[k].requests = callers[k].requests + 1
           /\ callers'[k].last \in {"429", "401"})
              => callers'[k].key # callers[k].key]_vars

\* ------------------------------------------------------------------ C30
\* C30 (as claimed): a call of _search_usda_food served from the cache returns
\* a primary match with the description and the per-100g nutrition that the
\* uncached lookup of the same food name and cooking method yields on the
\* unchanged database, and portion values of per-100g * weight / 100.
C30_CacheHitAsUncachedLookup ==
    cache_call.hit =>
        LET fresh == UncachedLookup(cache_db, cache_call.food_name,
                                    cache_call.cooking_method,
                                    cache_call.estimated_weight)
            hit == cache_result.primary_match
        IN  /\ fresh.found
            /\ hit.description = fresh.primary_match.description
            /\ hit.nutrition_per_100g = fresh.primary_match.nutrition_per_100g
            /\ hit.nutrition_for_portion =
                  {<<n[1], AdjustedAmount(n[2], cache_call.estimated_weight)>> :
                      n \in fresh.primary_match.nutrition_per_100g}

====
